---- MODULE Spec2Model ----
(***************************************************************************)
(* Model of the MUN assistant orchestrator                                 *)
(* (src/backend_services/src/orchestrator.ts): the intent classifier, the  *)
(* priority queue of agent tasks, the scheduling pass processTaskQueue and *)
(* the execution of a task by its specialist agent.                        *)
(*                                                                         *)
(* The orchestrator runs on a single JavaScript thread.  A handler runs to *)
(* its next await without interleaving; processTaskQueue contains no await *)
(* at all, so while a pass is running no other handler and no specialist   *)
(* continuation can run.  The pass is modelled one loop iteration at a     *)
(* time, with every other action disabled until the pass has returned.     *)
(*                                                                         *)
(* Spec and BurstSpec follow the scheduler; RegistrySpec, ConnectionSpec,  *)
(* AuthSpec, FrameSpec, SessionSpec and ClassifySpec follow the WebSocket  *)
(* clients, their sessions and the frames they send; DeliverySpec follows  *)
(* clients and scheduler together; HistorySpec follows one message         *)
(* history; LiveSpec follows the scheduler under fair scheduling,          *)
(* UnauthenticatedSpec the clients that have not authenticated, ResultSpec *)
(* a specialist that returns no result.                                    *)
(*                                                                         *)
(* The browser's side is the hook useRealtimeChat (src/unnamed/part_003),  *)
(* which keeps one WebSocket to the orchestrator: ReconnectSpec follows    *)
(* its reconnect loop and QueueSpec its queue of outbound messages.  The   *)
(* handlers of the hook run on the browser's single thread, one at a time; *)
(* sendMessage reads the connection status as the hook has last set it.    *)
(***************************************************************************)
EXTENDS Integers, Sequences, FiniteSets, TLC

\* ------------------------------------------------------------------ bounds
\* Number of tasks the model lets the orchestrator create.
MaxTasks == 7

\* Number of messages appended to one history in HistorySpec.
MaxAppends == 102

\* Number of chat frames ConnectionSpec handles.
MaxChats == 2

\* Number of chat frames RegistrySpec and AuthSpec handle.
MaxRegistryChats == 1

\* Number of task plans ClassifySpec lets the classifier make.
MaxPlans == 1

\* Number of idle periods the clock of RegistrySpec runs through.
MaxIdlePeriods == 1

\* Number of documents uploaded in UnauthenticatedSpec.
MaxUploads == 1

\* Number of sockets the hook creates, and of sockets it has dropped from wsRef
\* whose events are still to come.
MaxSockets == 7

MaxOrphans == 1

\* Number of reconnect timeouts of the hook pending at once.
MaxTimers == 2

\* Number of messages the user of the hook sends in QueueSpec and in
\* ReconnectSpec.
MaxSends == 102

MaxReconnectSends == 1

\* Number of sockets the hook creates in QueueSpec.
MaxQueueSockets == 2

\* ------------------------------------------------------- program constants
\* "Max 5 concurrent tasks": the literal in the loop condition.
MaxConcurrentTasks == 5

\* "Keep only last 100 messages".
HistoryCap == 100

\* 5 * 60 * 1000: the timeout of cleanupInactiveClients, in milliseconds.
IdleTimeout == 300000

VARIABLES
  now,               \* the wall clock read by new Date(), in milliseconds
  clients,           \* Orchestrator.clients: Map clientId -> WebSocketClient
  outbox,            \* socket calls of the last handler: <<[to, data], ...>>
  sessions,          \* Map sessionId -> MUNSession
  runningPasses,     \* activations of processTaskQueue that have not returned
  tasks,             \* every AgentTask object created so far, by task number
  taskQueue,         \* Orchestrator.taskQueue: sequence of task numbers
  activeTasks,       \* Orchestrator.activeTasks: key set of the Map
  isProcessingQueue, \* Orchestrator.isProcessingQueue
  broadcasts,        \* per task: payloads passed to broadcastToSession, in order
  systemBroadcasts,  \* payloads broadcast for no task (agentType 'system'), in order
  realtimeChat       \* the refs and the connection status of one useRealtimeChat hook

vars == <<now, clients, outbox, sessions, runningPasses, tasks, taskQueue, activeTasks,
          isProcessingQueue, broadcasts, systemBroadcasts, realtimeChat>>

\* The state of the orchestrator, which the browser's hook does not touch.
orchestratorVars ==
  <<now, clients, outbox, sessions, runningPasses, tasks, taskQueue, activeTasks,
    isProcessingQueue, broadcasts, systemBroadcasts>>

\* ------------------------------------------------------------ vocabulary
SessionIds == {"s1"}

\* The session ids auth frames ask for, and the ids generateSessionId hands out.
AuthSessionIds == {"s1", "s2"}

GeneratedSessionIds == {"session_1"}

\* Every sessionId a client or a task can carry; '' is the initial sessionId of
\* a client.
KnownSessionIds == SessionIds \cup AuthSessionIds \cup GeneratedSessionIds \cup {""}

Phases == {"lobby", "mods", "unmods", "gsl", "crisis", "resolution"}

priorityOrder == [critical |-> 4, high |-> 3, medium |-> 2, low |-> 1]

\* ------------------------------------------------------ intent classifier
\* A chat message is a record; its content, when it has one, is a sequence of
\* words.  A message without the field has message.content undefined.
HasContent(message) == "content" \in DOMAIN message

ResearchWords == {"what", "who", "where", "when", "why", "how", "tell me", "explain",
                  "research", "find", "look up", "information", "data", "facts",
                  "statistics", "source", "evidence"}

PolicyWords == {"rule", "procedure", "motion", "amendment", "resolution", "voting",
                "caucus", "speakers list", "parliamentary", "united nations",
                "model un", "mun", "delegate", "committee", "council", "moderated",
                "unmoderated"}

WritingWords == {"write", "draft", "speech", "statement", "position paper",
                 "resolution clause", "amendment", "help me word", "formal language",
                 "diplomatic"}

CrisisWords == {"crisis", "emergency", "urgent", "breaking", "latest news",
                "current situation", "developing", "rapid response"}

AnalyticsWords == {"analyze", "track", "time", "speaking order", "voting patterns",
                   "bloc", "strategy", "assessment", "progress", "summary"}

\* String.prototype.toLowerCase on the words the model uses.
ToLowerCase(w) ==
  CASE w = "URGENT" -> "urgent"
    [] w = "Write"  -> "write"
    [] w = "What"   -> "what"
    [] OTHER        -> w

\* content.match(/k1|k2|.../): some keyword of the class occurs in the content.
Match(content, keywords) ==
  \E i \in 1..Len(content) : ToLowerCase(content[i]) \in keywords

\* A classifier that answers every message with one policy task.
AnalyzeMessagePolicyOnly(content, currentPhase) ==
  [needsResearch  |-> FALSE,
   needsPolicy    |-> TRUE,
   needsWriting   |-> FALSE,
   needsCrisis    |-> FALSE,
   needsAnalytics |-> FALSE,
   priority       |-> "medium",
   agentSequence  |-> <<"policy">>]

\* analyzeMessage: the needs, the priority and the agent sequence.
\* A classifier that plans one research task of low priority for every message.
AnalyzeMessageLowPriority(content, currentPhase) ==
  [needsResearch |-> TRUE, needsPolicy |-> FALSE, needsWriting |-> FALSE,
   needsCrisis |-> FALSE, needsAnalytics |-> FALSE, priority |-> "low",
   agentSequence |-> <<"research">>]

AnalyzeMessage(content, currentPhase) ==
  LET kwResearch  == Match(content, ResearchWords)
      kwPolicy    == Match(content, PolicyWords)
      kwWriting   == Match(content, WritingWords)
      kwCrisis    == Match(content, CrisisWords)
      kwAnalytics == Match(content, AnalyticsWords)
      needsResearch  == kwResearch \/ currentPhase \in {"crisis", "mods", "unmods"}
      needsPolicy    == kwPolicy \/ currentPhase \in {"resolution", "mods", "unmods"}
      needsWriting   == kwWriting \/ currentPhase = "resolution"
      needsCrisis    == kwCrisis \/ currentPhase = "crisis"
      needsAnalytics == kwAnalytics
      priority == IF kwCrisis \/ currentPhase = "crisis" THEN "high" ELSE "medium"
      sequence ==
        IF needsResearch /\ needsWriting THEN <<"research", "writing">>
        ELSE IF needsPolicy /\ needsResearch THEN <<"policy", "research">>
        ELSE IF needsCrisis THEN <<"crisis", "research">>
        ELSE IF needsWriting
          THEN (IF needsResearch THEN <<"research", "writing">> ELSE <<"writing">>)
        ELSE IF needsPolicy THEN <<"policy">>
        ELSE IF needsResearch THEN <<"research">>
        ELSE IF needsAnalytics THEN <<"analytics">>
        ELSE <<>>
  IN [needsResearch  |-> needsResearch \/ sequence = <<>>,
      needsPolicy    |-> needsPolicy,
      needsWriting   |-> needsWriting,
      needsCrisis    |-> needsCrisis,
      needsAnalytics |-> needsAnalytics,
      priority       |-> priority,
      agentSequence  |-> IF sequence = <<>> THEN <<"research">> ELSE sequence]

\* Array.prototype.indexOf: first position of x in seq, counted from 0; -1 if absent.
IndexOf(seq, x) ==
  IF \E i \in 1..Len(seq) : seq[i] = x
    THEN (CHOOSE i \in 1..Len(seq) : seq[i] = x /\ \A j \in 1..(i-1) : seq[j] # x) - 1
    ELSE -1

\* A task builder that chains no task to the one before it.
CreateTasksFromAnalysisUnchained(sessionId, query, phase, analysis, firstId, createdAt) ==
  [k \in 1..Len(analysis.agentSequence) |->
     [id           |-> firstId + k - 1,
      type         |-> analysis.agentSequence[k],
      priority     |-> analysis.priority,
      query        |-> query,
      sessionId    |-> sessionId,
      phase        |-> phase,
      dependencies |-> {},
      status       |-> "pending",
      result       |-> "none",
      error        |-> "none",
      createdAt    |-> createdAt]]

\* createTasksFromAnalysis: one pending task per entry of agentSequence; the task
\* numbers firstId, firstId+1, ... stand for the generated task ids.  A task
\* whose type is not first in the sequence depends on the task built before it.
CreateTasksFromAnalysis(sessionId, query, phase, analysis, firstId, createdAt) ==
  [k \in 1..Len(analysis.agentSequence) |->
     [id           |-> firstId + k - 1,
      type         |-> analysis.agentSequence[k],
      priority     |-> analysis.priority,
      query        |-> query,
      sessionId    |-> sessionId,
      phase        |-> phase,
      dependencies |-> IF IndexOf(analysis.agentSequence, analysis.agentSequence[k]) > 0
                         THEN {firstId + k - 2} ELSE {},
      status       |-> "pending",
      result       |-> "none",
      error        |-> "none",
      createdAt    |-> createdAt]]

\* ------------------------------------------------------------ task queue
\* The comparator of sortTaskQueue over the task objects T: negative when a
\* sorts before b, positive when b sorts before a.
CompareTasks(T, a, b) ==
  LET priorityDiff == priorityOrder[T[b].priority] - priorityOrder[T[a].priority]
  IN  IF priorityDiff # 0 THEN priorityDiff
      ELSE T[a].createdAt - T[b].createdAt

\* Array.prototype.sort is stable: elements the comparator ranks equal keep
\* their relative order.  x goes behind every element not ranked after it.
InsertStable(sorted, x, T) ==
  SelectSeq(sorted, LAMBDA y : CompareTasks(T, y, x) <= 0) \o <<x>> \o
  SelectSeq(sorted, LAMBDA y : CompareTasks(T, y, x) > 0)

\* sortTaskQueue applied to a queue q of task numbers whose task objects are T.
RECURSIVE SortTaskQueue(_, _)
SortTaskQueue(q, T) ==
  IF q = <<>> THEN <<>>
  ELSE InsertStable(SortTaskQueue(SubSeq(q, 1, Len(q) - 1), T), q[Len(q)], T)

\* addTaskToQueue: push, then sort.
AddTaskToQueue(q, id, T) == SortTaskQueue(Append(q, id), T)

\* addTaskToQueue for every task of a plan, in plan order.
RECURSIVE AddTasksToQueue(_, _, _)
AddTasksToQueue(q, ids, T) ==
  IF ids = <<>> THEN q
  ELSE AddTasksToQueue(AddTaskToQueue(q, Head(ids), T), Tail(ids), T)

\* ------------------------------------------------------------- sessions
\* An empty object {} and an object with the given fields: phaseData and
\* agentContext are functions from field names to values.
EmptyObject == [x \in {} |-> 0]

\* The MUNSession getOrCreateSession builds for an id that has none.
NewSession(sessionId) ==
  [id |-> sessionId, userId |-> "", country |-> "", council |-> "",
   committee |-> "", topic |-> "", currentPhase |-> "lobby",
   phaseData |-> EmptyObject, agentContext |-> EmptyObject,
   messageHistory |-> <<>>, createdAt |-> now, updatedAt |-> now]

\* A lookup that hands out a new session on every call.
GetOrCreateSessionResets(store, sessionId) ==
  [x \in DOMAIN store \cup {sessionId} |->
     IF x = sessionId THEN NewSession(sessionId) ELSE store[x]]

\* getOrCreateSession: a session that is not in the store is created in lobby,
\* with empty fields; a session that is in the store is returned as it is.
GetOrCreateSession(store, sessionId) ==
  IF sessionId \in DOMAIN store THEN store
  ELSE [x \in DOMAIN store \cup {sessionId} |->
          IF x = sessionId THEN NewSession(sessionId) ELSE store[x]]

\* ---------------------------------------------------------- connections
\* The connection ids the model hands out; a closed connection's id may be used
\* again.  ClientOrder is the order in which a broadcast visits the registry.
ClientIds == {"c1", "c2"}

ClientOrder == <<"c1", "c2">>

\* Map.set and Map.delete.
MapSet(m, key, value) == [x \in DOMAIN m \cup {key} |-> IF x = key THEN value ELSE m[x]]

MapDelete(m, keys) == [x \in DOMAIN m \ keys |-> m[x]]

\* sendToClient: one socket.send when the client is registered and its socket
\* open; a send that throws is caught and logged, and delivers nothing.
SendToClient(registry, clientId, data) ==
  IF clientId \in DOMAIN registry /\ registry[clientId].readyState = "OPEN"
    THEN IF registry[clientId].sendThrows THEN <<>>
         ELSE <<[to |-> clientId, data |-> data]>>
    ELSE <<>>

\* The clients a broadcast for sessionId calls sendToClient for, in the order of
\* the registry.
BroadcastTargets(registry, sessionId) ==
  LET Receives(clientId) ==
        /\ clientId \in DOMAIN registry
        /\ registry[clientId].sessionId = sessionId
        /\ registry[clientId].readyState = "OPEN"
  IN  SelectSeq(ClientOrder, Receives)

\* A broadcast that a throwing send ends: the clients after it get nothing.
RECURSIVE SendToEachUntilThrow(_, _, _)
SendToEachUntilThrow(registry, targets, data) ==
  IF targets = <<>> \/ registry[Head(targets)].sendThrows THEN <<>>
  ELSE SendToClient(registry, Head(targets), data)
         \o SendToEachUntilThrow(registry, Tail(targets), data)

BroadcastToSessionUntilThrow(registry, sessionId, data) ==
  SendToEachUntilThrow(registry, BroadcastTargets(registry, sessionId), data)

\* The loop of broadcastToSession: sendToClient for one target after the other.
RECURSIVE SendToEach(_, _, _)
SendToEach(registry, targets, data) ==
  IF targets = <<>> THEN <<>>
  ELSE SendToClient(registry, Head(targets), data)
         \o SendToEach(registry, Tail(targets), data)

\* broadcastToSession: sendToClient for every registered client whose sessionId
\* is sessionId and whose socket is open.
BroadcastToSession(registry, sessionId, data) ==
  SendToEach(registry, BroadcastTargets(registry, sessionId), data)

\* addToSessionHistory: push, then keep the last HistoryCap entries.
AddToSessionHistoryKeepsOldest(store, sessionId, message) ==
  LET created == GetOrCreateSession(store, sessionId)
      pushed  == Append(created[sessionId].messageHistory, message)
  IN  [created EXCEPT ![sessionId].messageHistory =
         IF Len(pushed) > HistoryCap THEN SubSeq(pushed, 1, HistoryCap) ELSE pushed]

AddToSessionHistory(store, sessionId, message) ==
  LET created == GetOrCreateSession(store, sessionId)
      pushed  == Append(created[sessionId].messageHistory, message)
  IN  [created EXCEPT ![sessionId].messageHistory =
         IF Len(pushed) > HistoryCap
           THEN SubSeq(pushed, Len(pushed) - HistoryCap + 1, Len(pushed))
           ELSE pushed]

\* --------------------------------------------------------------- payloads
\* The ChatMessage handleChatMessage builds at time time; the generated id is
\* msg_<Date.now()>_<random>, of which the model keeps the time.  content is
\* message.content: a frame without content gives a ChatMessage without one.
ChatMessage(message, sessionId, time) ==
  IF HasContent(message)
    THEN [id |-> time, content |-> message.content, type |-> "user",
          timestamp |-> time, sessionId |-> sessionId]
    ELSE [id |-> time, type |-> "user", timestamp |-> time, sessionId |-> sessionId]

Welcome(clientId) == [type |-> "system", clientId |-> clientId]

AuthSuccess(clientId, userId, sessionId) ==
  [type |-> "auth_success", clientId |-> clientId, userId |-> userId,
   sessionId |-> sessionId]

ErrorPayload == [type |-> "error", message |-> "Failed to process message"]

MessagePayload(chatMessage) == [type |-> "message", message |-> chatMessage]

SessionUpdatePayload(sessionId, session) ==
  [type |-> "session_update",
   session |-> [id |-> session.id, currentPhase |-> session.currentPhase,
                phaseData |-> session.phaseData, country |-> session.country,
                council |-> session.council, committee |-> session.committee,
                topic |-> session.topic]]

\* A dispatch that announces the task with an agent_response.
WorkingStatusAsResponse(t) ==
  [type |-> "agent_response", status |-> "working", taskId |-> t.id,
   agentType |-> t.type, isError |-> FALSE, sessionId |-> t.sessionId]

WorkingStatus(t) ==
  [type |-> "agent_status", status |-> "working", taskId |-> t.id,
   agentType |-> t.type, isError |-> FALSE, sessionId |-> t.sessionId]

AgentResponse(t) ==
  [type |-> "agent_response", status |-> "none", taskId |-> t.id,
   agentType |-> t.type, isError |-> FALSE, sessionId |-> t.sessionId]

\* An error response that does not carry the error flag.
AgentErrorResponseUnflagged(t) ==
  [type |-> "agent_response", status |-> "none", taskId |-> t.id,
   agentType |-> t.type, isError |-> FALSE, sessionId |-> t.sessionId]

AgentErrorResponse(t) ==
  [type |-> "agent_response", status |-> "none", taskId |-> t.id,
   agentType |-> t.type, isError |-> TRUE, sessionId |-> t.sessionId]

\* ------------------------------------------------- the browser's hook
\* useRealtimeChat (src/unnamed/part_003).  ws is the readyState of the socket
\* in wsRef, "null" without one.  orphans counts the sockets the hook has
\* created that are no longer in wsRef and whose events are still to come: a
\* socket that is connecting or open, and a socket closed by disconnect() whose
\* close event, with code 1000 or 1006, is pending.  timers counts the pending
\* reconnect timeouts and timeoutRef tells whether reconnectTimeoutRef holds
\* one of them.  sent lists the socket.send calls of the last handler.
\* created and nextMessage count the sockets created and the messages the
\* user has sent.
MAX_RECONNECT_ATTEMPTS == 5

MESSAGE_QUEUE_SIZE == 100

OrphanKinds == {"CONNECTING", "OPEN", "CLOSING_1000", "CLOSING_1006"}

Unmounted ==
  [ws |-> "null", orphans |-> [kind \in OrphanKinds |-> 0], isConnecting |-> FALSE,
   reconnectAttempts |-> 0, timers |-> 0, timeoutRef |-> FALSE,
   messageQueue |-> <<>>, connected |-> FALSE, connecting |-> FALSE,
   currentSession |-> FALSE, sent |-> <<>>, created |-> 0, nextMessage |-> 1]

OrphansTotal(h) ==
  h.orphans["CONNECTING"] + h.orphans["OPEN"] + h.orphans["CLOSING_1000"]
    + h.orphans["CLOSING_1006"]

\* clearReconnectTimeout: the timeout in the ref, when it is pending, is cleared.
clearReconnectTimeout(h) ==
  IF h.timeoutRef THEN [h EXCEPT !.timers = @ - 1, !.timeoutRef = FALSE] ELSE h

\* connect: nothing while a connection is being made or the socket in wsRef is
\* open; otherwise a new socket replaces the one in wsRef.
connect(h) ==
  IF h.isConnecting \/ h.ws = "OPEN" THEN h
  ELSE LET cleared == clearReconnectTimeout(h)
       IN  [cleared EXCEPT !.isConnecting = TRUE,
                           !.connecting = TRUE,
                           !.connected = FALSE,
                           !.orphans["CONNECTING"] =
                              IF h.ws = "CONNECTING" THEN @ + 1 ELSE @,
                           !.ws = "CONNECTING",
                           !.created = @ + 1]

\* A sendMessage that queues without looking at the size of the queue.
sendMessageUnbounded(h, message) ==
  IF h.ws = "OPEN" THEN [h EXCEPT !.sent = Append(@, message)]
  ELSE LET queued == [h EXCEPT !.messageQueue = Append(@, message)]
       IN  IF ~queued.connected /\ ~queued.connecting THEN connect(queued) ELSE queued

\* sendMessage: sent at once on an open socket; otherwise queued, unless the
\* queue is full, and a connection is attempted when none is up or under way.
sendMessage(h, message) ==
  IF h.ws = "OPEN" THEN [h EXCEPT !.sent = Append(@, message)]
  ELSE LET queued == IF Len(h.messageQueue) < MESSAGE_QUEUE_SIZE
                       THEN [h EXCEPT !.messageQueue = Append(@, message)]
                       ELSE h
       IN  IF ~queued.connected /\ ~queued.connecting THEN connect(queued) ELSE queued

AuthMessage == [type |-> "auth", userId |-> "current-user"]

\* ws.onopen, after the socket has been marked open: the attempts are reset,
\* the auth message is sent through sendMessage when there is a session, and
\* the queue is drained into the socket that has opened.
onopen(h) ==
  LET opened == [h EXCEPT !.isConnecting = FALSE, !.reconnectAttempts = 0,
                          !.connected = TRUE, !.connecting = FALSE]
      authed == IF h.currentSession THEN sendMessage(opened, AuthMessage) ELSE opened
  IN  [authed EXCEPT !.sent = @ \o authed.messageQueue, !.messageQueue = <<>>]

\* An onclose that schedules a reconnect after a normal close as well.
ShouldReconnectAlways(code, attempts) == attempts < MAX_RECONNECT_ATTEMPTS

\* The condition under which onclose schedules a reconnect.
ShouldReconnect(code, attempts) == code # 1000 /\ attempts < MAX_RECONNECT_ATTEMPTS

\* ws.onclose with the code of the close event: a reconnect is scheduled after
\* an abnormal close while attempts are left.
onclose(h, code) ==
  LET closed == [h EXCEPT !.isConnecting = FALSE, !.connected = FALSE,
                          !.connecting = FALSE]
  IN  IF ShouldReconnect(code, h.reconnectAttempts)
        THEN [closed EXCEPT !.reconnectAttempts = @ + 1, !.timers = @ + 1,
                            !.timeoutRef = TRUE]
        ELSE closed

\* disconnect: the timeout is cleared, the socket in wsRef closed with code
\* 1000 and dropped, attempts and queue reset.  The close event of the dropped
\* socket is still to come: with code 1000 when it was open, with code 1006
\* when it was connecting.
disconnect(h) ==
  LET cleared == clearReconnectTimeout(h)
  IN  [cleared EXCEPT !.orphans["CLOSING_1000"] = IF h.ws = "OPEN" THEN @ + 1 ELSE @,
                      !.orphans["CLOSING_1006"] =
                         IF h.ws = "CONNECTING" THEN @ + 1 ELSE @,
                      !.ws = "null",
                      !.isConnecting = FALSE,
                      !.reconnectAttempts = 0,
                      !.messageQueue = <<>>,
                      !.connected = FALSE,
                      !.connecting = FALSE]

\* ----------------------------------------------------------------- state
\* The shape of the state: the AgentTask objects, the queue and the active set
\* of the Orchestrator, its sessions and the payloads it has broadcast.
TypeOK ==
  /\ now \in Nat
  /\ DOMAIN clients \subseteq ClientIds
  /\ \A clientId \in DOMAIN clients :
       /\ clients[clientId].sessionId \in KnownSessionIds
       /\ clients[clientId].lastActivity \in 0..now
       /\ clients[clientId].readyState \in {"OPEN", "CLOSING"}
       /\ clients[clientId].sendThrows \in BOOLEAN
  /\ \A k \in 1..Len(outbox) : outbox[k].to \in ClientIds
  /\ runningPasses \in Nat
  /\ DOMAIN sessions \subseteq KnownSessionIds
  /\ \A sessionId \in DOMAIN sessions : sessions[sessionId].currentPhase \in Phases
  /\ \A id \in 1..Len(tasks) :
       /\ tasks[id].id = id
       /\ tasks[id].type \in {"research", "policy", "writing", "crisis", "analytics"}
       /\ tasks[id].priority \in DOMAIN priorityOrder
       /\ tasks[id].dependencies \subseteq 1..Len(tasks)
       /\ tasks[id].status \in {"pending", "in_progress", "completed", "failed"}
       /\ tasks[id].sessionId \in KnownSessionIds
       /\ tasks[id].createdAt \in 1..now
  /\ \A i \in 1..Len(taskQueue) : taskQueue[i] \in 1..Len(tasks)
  /\ activeTasks \subseteq 1..Len(tasks)
  /\ isProcessingQueue \in BOOLEAN
  /\ Len(broadcasts) = Len(tasks)

\* ------------------------------------------------------------------ Init
Init ==
  /\ now = 0
  /\ clients = [x \in {} |-> [sessionId |-> "", userId |-> "", lastActivity |-> 0,
                                readyState |-> "OPEN", sendThrows |-> FALSE]]
  /\ outbox = <<>>
  /\ sessions = [x \in {} |-> NewSession(x)]
  /\ runningPasses = 0
  /\ tasks = <<>>
  /\ taskQueue = <<>>
  /\ activeTasks = {}
  /\ isProcessingQueue = FALSE
  /\ broadcasts = <<>>
  /\ systemBroadcasts = <<>>
  /\ realtimeChat = Unmounted

\* --------------------------------------------------------------- actions
\* The chat messages the model sends: one that matches no keyword class and one
\* that matches the crisis class.
Messages == {[content |-> <<"hello">>], [content |-> <<"URGENT">>]}

\* A classification error that is broadcast without the error flag.
SystemErrorUnflagged(sessionId) ==
  [type |-> "agent_response", status |-> "none", taskId |-> 0,
   agentType |-> "system", isError |-> FALSE, sessionId |-> sessionId]

SystemError(sessionId) ==
  [type |-> "agent_response", status |-> "none", taskId |-> 0,
   agentType |-> "system", isError |-> TRUE, sessionId |-> sessionId]

\* analyzeMessageAndCreateTasks for a chat message of session sessionId; store is
\* the session store and sent the socket.send calls the handler has made before
\* the call.  Every message with content is handled one millisecond after the
\* previous one; the tasks of one plan are created within the same millisecond.
\* At most MaxTasks tasks are made.
AnalyzeMessageAndCreateTasks(store, sent, sessionId, message) ==
  /\ ~isProcessingQueue
  /\ sessions' = GetOrCreateSession(store, sessionId)
  /\ IF ~HasContent(message)
       THEN \* content.toLowerCase() throws: the catch block broadcasts an error
            /\ systemBroadcasts' = Append(systemBroadcasts, SystemError(sessionId))
            /\ outbox' = sent \o BroadcastToSession(clients', sessionId,
                                                    SystemError(sessionId))
            /\ UNCHANGED <<now, tasks, taskQueue, broadcasts>>
       ELSE LET currentPhase == sessions'[sessionId].currentPhase
                analysis == AnalyzeMessage(message.content, currentPhase)
                created  == CreateTasksFromAnalysis(sessionId, message.content,
                                                    currentPhase, analysis,
                                                    Len(tasks) + 1, now + 1)
            IN  /\ Len(tasks) + Len(created) <= MaxTasks
                /\ now' = now + 1
                /\ tasks' = tasks \o created
                /\ broadcasts' = broadcasts \o [k \in 1..Len(created) |-> <<>>]
                /\ taskQueue' = AddTasksToQueue(taskQueue,
                                   [k \in 1..Len(created) |-> created[k].id], tasks')
                /\ outbox' = sent
                /\ UNCHANGED systemBroadcasts
  /\ UNCHANGED <<realtimeChat, runningPasses, activeTasks, isProcessingQueue>>

\* A chat message of session sessionId reaches analyzeMessageAndCreateTasks; the
\* connection it came from is not followed.
ChatMessageArrives(sessionId, message) ==
  /\ UNCHANGED clients
  /\ AnalyzeMessageAndCreateTasks(sessions, <<>>, sessionId, message)

\* A timer callback that enters processTaskQueue whenever the queue holds a task.
QueueReadyUnguarded == Len(taskQueue) > 0

\* The condition under which the interval callback of startTaskProcessor calls
\* processTaskQueue and processTaskQueue goes past its first line.
QueueReady == ~isProcessingQueue /\ Len(taskQueue) > 0

\* The interval callback of startTaskProcessor enters processTaskQueue.
StartTaskProcessor ==
  /\ QueueReady
  /\ isProcessingQueue' = TRUE
  /\ runningPasses' = runningPasses + 1
  /\ outbox' = <<>>
  /\ UNCHANGED <<realtimeChat, now, clients, sessions, tasks, taskQueue, activeTasks, broadcasts,
                 systemBroadcasts>>

\* A dependency check that lets every task through.
DependenciesMetAlways(id) == TRUE

\* A dependency check that counts only a completed dependency as met.
DependenciesMetOnlyCompleted(id) ==
  \A depId \in tasks[id].dependencies : tasks[depId].status = "completed"

\* The dependency check of processTaskQueue for task number id.
DependenciesMet(id) ==
  \A depId \in tasks[id].dependencies :
    depId \notin activeTasks \/ tasks[depId].status = "completed"

\* A loop condition that admits one task too many.
LoopConditionOffByOne ==
  Len(taskQueue) > 0 /\ Cardinality(activeTasks) <= MaxConcurrentTasks

\* A loop condition that stops one task short of the cap.
LoopConditionStopsEarly ==
  Len(taskQueue) > 0 /\ Cardinality(activeTasks) < MaxConcurrentTasks - 1

\* The condition of the while loop of processTaskQueue.
LoopCondition == Len(taskQueue) > 0 /\ Cardinality(activeTasks) < MaxConcurrentTasks

\* A put-back that pushes the task twice.
PutBackInQueueTwice(q, id) == Append(Append(q, id), id)

\* A put-back that loses the task.
PutBackInQueueDropped(q, id) == q

\* "Put back in queue": the shifted task is pushed at the end; the queue is not
\* sorted again.
PutBackInQueue(q, id) == Append(q, id)

\* One iteration of the while loop: shift the head; put it back when a
\* dependency is unmet, otherwise register it as active and run executeTask up
\* to its await (status in_progress, 'working' broadcast, specialist invoked).
ProcessTaskQueue ==
  /\ isProcessingQueue
  /\ LoopCondition
  /\ LET id == Head(taskQueue)
     IN  IF tasks[id].dependencies # {} /\ ~DependenciesMet(id)
           THEN /\ taskQueue' = PutBackInQueue(Tail(taskQueue), id)
                /\ outbox' = <<>>
                /\ UNCHANGED <<tasks, activeTasks, broadcasts>>
           ELSE /\ taskQueue' = Tail(taskQueue)
                /\ activeTasks' = activeTasks \cup {id}
                /\ tasks' = [tasks EXCEPT ![id].status = "in_progress"]
                /\ broadcasts' = [broadcasts EXCEPT
                                    ![id] = Append(@, WorkingStatus(tasks[id]))]
                /\ outbox' = BroadcastToSession(clients, tasks[id].sessionId,
                                                WorkingStatus(tasks[id]))
  /\ UNCHANGED <<realtimeChat, now, clients, sessions, runningPasses, isProcessingQueue,
                 systemBroadcasts>>

\* The loop condition is false: the finally block resets the flag.
ProcessTaskQueueReturns ==
  /\ isProcessingQueue
  /\ ~LoopCondition
  /\ isProcessingQueue' = FALSE
  /\ runningPasses' = runningPasses - 1
  /\ outbox' = <<>>
  /\ UNCHANGED <<realtimeChat, now, clients, sessions, tasks, taskQueue, activeTasks, broadcasts,
                 systemBroadcasts>>

\* Messages of the errors a specialist may throw.
ErrorMessages == {"agent failed"}

\* executeTask after the await, the specialist's promise fulfilled.
ExecuteTaskSucceeds(id) ==
  /\ ~isProcessingQueue
  /\ id \in activeTasks
  /\ tasks[id].status = "in_progress"
  /\ tasks' = [tasks EXCEPT ![id].status = "completed", ![id].result = "result"]
  /\ broadcasts' = [broadcasts EXCEPT ![id] = Append(@, AgentResponse(tasks[id]))]
  /\ outbox' = BroadcastToSession(clients, tasks[id].sessionId, AgentResponse(tasks[id]))
  /\ activeTasks' = activeTasks \ {id}
  /\ UNCHANGED <<realtimeChat, now, clients, sessions, runningPasses, taskQueue, isProcessingQueue,
                 systemBroadcasts>>

\* The message of the TypeError that reading result.content throws when the
\* specialist's promise is fulfilled with undefined or null.
TypeErrorMessage == "Cannot read properties of undefined (reading 'content')"

\* A try block that broadcasts the response before the exception is thrown.
ExecuteTaskResultUndefinedAfterBroadcast(id) ==
  /\ ~isProcessingQueue
  /\ id \in activeTasks
  /\ tasks[id].status = "in_progress"
  /\ tasks' = [tasks EXCEPT ![id].status = "completed", ![id].result = "undefined"]
  /\ broadcasts' = [broadcasts EXCEPT ![id] = Append(@, AgentResponse(tasks[id]))]
  /\ outbox' = BroadcastToSession(clients, tasks[id].sessionId, AgentResponse(tasks[id]))
  /\ UNCHANGED <<realtimeChat, now, clients, sessions, runningPasses, taskQueue, activeTasks,
                 isProcessingQueue, systemBroadcasts>>

\* executeTask after the await, the specialist's promise fulfilled with
\* undefined: task.result and task.status = 'completed' are assigned, then the
\* argument result.content of the broadcast throws before anything is sent.
\* The task is still in the active set: the catch block runs next.
ExecuteTaskResultUndefined(id) ==
  /\ ~isProcessingQueue
  /\ id \in activeTasks
  /\ tasks[id].status = "in_progress"
  /\ tasks' = [tasks EXCEPT ![id].status = "completed", ![id].result = "undefined"]
  /\ outbox' = <<>>
  /\ UNCHANGED <<realtimeChat, now, clients, sessions, runningPasses, taskQueue, activeTasks,
                 isProcessingQueue, broadcasts, systemBroadcasts>>

\* A task is between the throw in the try block of executeTask and its catch
\* block; the code in between is synchronous, nothing else runs.
InCatch == \E id \in activeTasks : tasks[id].status = "completed"

\* The catch and finally blocks of executeTask after the TypeError: the error is
\* recorded, the status assigned, the error response broadcast and the task
\* deleted from the active set.
ExecuteTaskCatchesTypeError(id) ==
  /\ id \in activeTasks
  /\ tasks[id].status = "completed"
  /\ tasks' = [tasks EXCEPT ![id].status = "failed",
                            ![id].error = TypeErrorMessage]
  /\ broadcasts' = [broadcasts EXCEPT ![id] = Append(@, AgentErrorResponse(tasks[id]))]
  /\ outbox' = BroadcastToSession(clients, tasks[id].sessionId,
                                  AgentErrorResponse(tasks[id]))
  /\ activeTasks' = activeTasks \ {id}
  /\ UNCHANGED <<realtimeChat, now, clients, sessions, runningPasses, taskQueue, isProcessingQueue,
                 systemBroadcasts>>

\* A failure path that retries: the failed task goes back to the queue as pending.
ExecuteTaskFailsRetries(id, message) ==
  /\ ~isProcessingQueue
  /\ id \in activeTasks
  /\ tasks[id].status = "in_progress"
  /\ tasks' = [tasks EXCEPT ![id].status = "pending", ![id].error = message]
  /\ broadcasts' = [broadcasts EXCEPT ![id] = Append(@, AgentErrorResponse(tasks[id]))]
  /\ outbox' = BroadcastToSession(clients, tasks[id].sessionId,
                                  AgentErrorResponse(tasks[id]))
  /\ activeTasks' = activeTasks \ {id}
  /\ taskQueue' = Append(taskQueue, id)
  /\ UNCHANGED <<realtimeChat, now, clients, sessions, runningPasses, isProcessingQueue,
                 systemBroadcasts>>

\* executeTask after the await, the specialist's promise rejected with message.
ExecuteTaskFails(id, message) ==
  /\ ~isProcessingQueue
  /\ id \in activeTasks
  /\ tasks[id].status = "in_progress"
  /\ tasks' = [tasks EXCEPT ![id].status = "failed", ![id].error = message]
  /\ broadcasts' = [broadcasts EXCEPT ![id] = Append(@, AgentErrorResponse(tasks[id]))]
  /\ outbox' = BroadcastToSession(clients, tasks[id].sessionId,
                                  AgentErrorResponse(tasks[id]))
  /\ activeTasks' = activeTasks \ {id}
  /\ UNCHANGED <<realtimeChat, now, clients, sessions, runningPasses, taskQueue, isProcessingQueue,
                 systemBroadcasts>>

Next ==
  \/ \E sessionId \in SessionIds, message \in Messages :
       ChatMessageArrives(sessionId, message)
  \/ StartTaskProcessor
  \/ ProcessTaskQueue
  \/ ProcessTaskQueueReturns
  \/ \E id \in activeTasks : ExecuteTaskSucceeds(id)
  \/ \E id \in activeTasks, message \in ErrorMessages : ExecuteTaskFails(id, message)

Spec == Init /\ [][Next]_vars

\* A burst of independent tasks: every message matches no keyword class (one
\* research task, no dependency) and all of them arrive before the first task
\* is dequeued.
BurstNext ==
  \/ /\ activeTasks = {}
     /\ \A id \in 1..Len(tasks) : tasks[id].status = "pending"
     /\ \E sessionId \in SessionIds :
          ChatMessageArrives(sessionId, [content |-> <<"hello">>])
  \/ StartTaskProcessor
  \/ ProcessTaskQueue
  \/ ProcessTaskQueueReturns
  \/ \E id \in activeTasks : ExecuteTaskSucceeds(id)
  \/ \E id \in activeTasks, message \in ErrorMessages : ExecuteTaskFails(id, message)

BurstSpec == Init /\ [][BurstNext]_vars

\* ----------------------------------------------------- connection handlers
\* wsServer.on('connection'): the client is registered with no session and no
\* user, and the welcome message is sent to it.
Connect(clientId) ==
  /\ ~isProcessingQueue
  /\ clientId \notin DOMAIN clients
  /\ clients' = MapSet(clients, clientId,
                       [sessionId |-> "", userId |-> "", lastActivity |-> now,
                        readyState |-> "OPEN", sendThrows |-> FALSE])
  /\ outbox' = SendToClient(clients', clientId, Welcome(clientId))
  /\ UNCHANGED <<realtimeChat, now, sessions, runningPasses, tasks, taskQueue, activeTasks,
                 isProcessingQueue, broadcasts, systemBroadcasts>>

\* The socket of a registered client leaves the OPEN state; its 'close' event
\* has not been delivered yet.
SocketClosing(clientId) ==
  /\ ~isProcessingQueue
  /\ clientId \in DOMAIN clients
  /\ clients[clientId].readyState = "OPEN"
  /\ clients' = [clients EXCEPT ![clientId].readyState = "CLOSING"]
  /\ outbox' = <<>>
  /\ UNCHANGED <<realtimeChat, now, sessions, runningPasses, tasks, taskQueue, activeTasks,
                 isProcessingQueue, broadcasts, systemBroadcasts>>

\* The socket of a registered client starts to throw from send() while it still
\* reports itself open.
SocketBreaks(clientId) ==
  /\ ~isProcessingQueue
  /\ clientId \in DOMAIN clients
  /\ ~clients[clientId].sendThrows
  /\ clients' = [clients EXCEPT ![clientId].sendThrows = TRUE]
  /\ outbox' = <<>>
  /\ UNCHANGED <<realtimeChat, now, sessions, runningPasses, tasks, taskQueue, activeTasks,
                 isProcessingQueue, broadcasts, systemBroadcasts>>

\* ws.on('close') and ws.on('error'): the client is deleted from the registry.
OnClose(clientId) ==
  /\ ~isProcessingQueue
  /\ clientId \in DOMAIN clients
  /\ clients' = MapDelete(clients, {clientId})
  /\ outbox' = <<>>
  /\ UNCHANGED <<realtimeChat, now, sessions, runningPasses, tasks, taskQueue, activeTasks,
                 isProcessingQueue, broadcasts, systemBroadcasts>>

\* message.field || default: a missing field and '' are both falsy.
Truthy(message, field) == field \in DOMAIN message /\ message[field] # ""

\* The ids generateSessionId can return: ids no client and no session carries.
FreshSessionIds ==
  {sessionId \in GeneratedSessionIds :
     /\ sessionId \notin DOMAIN sessions
     /\ \A clientId \in DOMAIN clients : clients[clientId].sessionId # sessionId}

\* An auth handler that leaves the session of a client that has one as it is.
HandleAuthBindsOnce(registry, clientId, message) ==
  /\ \E sessionId \in (IF Truthy(message, "sessionId") THEN {message.sessionId}
                       ELSE FreshSessionIds) :
       LET userId == IF Truthy(message, "userId") THEN message.userId ELSE "anonymous"
           bound  == IF registry[clientId].sessionId = "" THEN sessionId
                     ELSE registry[clientId].sessionId
       IN  /\ clients' = [registry EXCEPT ![clientId].userId = userId,
                                          ![clientId].sessionId = bound]
           /\ outbox' = SendToClient(clients', clientId,
                                     AuthSuccess(clientId, userId, bound))
  /\ UNCHANGED <<realtimeChat, now, sessions, runningPasses, tasks, taskQueue, activeTasks,
                 isProcessingQueue, broadcasts, systemBroadcasts>>

\* handleAuth: userId and sessionId of the client are overwritten from the
\* message, with 'anonymous' and a generated session id as defaults, and
\* auth_success is sent to the client.  The session store is not touched.
HandleAuth(registry, clientId, message) ==
  /\ \E sessionId \in (IF Truthy(message, "sessionId") THEN {message.sessionId}
                       ELSE FreshSessionIds) :
       LET userId == IF Truthy(message, "userId") THEN message.userId ELSE "anonymous"
       IN  /\ clients' = [registry EXCEPT ![clientId].userId = userId,
                                          ![clientId].sessionId = sessionId]
           /\ outbox' = SendToClient(clients', clientId,
                                     AuthSuccess(clientId, userId, sessionId))
  /\ UNCHANGED <<realtimeChat, now, sessions, runningPasses, tasks, taskQueue, activeTasks,
                 isProcessingQueue, broadcasts, systemBroadcasts>>

\* handleChatMessage: the ChatMessage is appended to the history of the client's
\* session and broadcast to the session, then analysed.
HandleChatMessage(registry, clientId, message) ==
  LET sessionId   == registry[clientId].sessionId
      chatMessage == ChatMessage(message, sessionId, now)
  IN  /\ clients' = registry
      /\ AnalyzeMessageAndCreateTasks(
           AddToSessionHistory(sessions, sessionId, chatMessage),
           BroadcastToSession(registry, sessionId, MessagePayload(chatMessage)),
           sessionId, chatMessage)

\* A merge that replaces the object by the one supplied.
SpreadReplaces(a, b) == b

\* { ...a, ...b }: the fields of both objects, with the values of b where both
\* have the field.
Spread(a, b) ==
  [x \in DOMAIN a \cup DOMAIN b |-> IF x \in DOMAIN b THEN b[x] ELSE a[x]]

\* if (message.field) session.field = message.field
AssignIfTruthy(session, message, field) ==
  IF Truthy(message, field) THEN [session EXCEPT ![field] = message[field]] ELSE session

\* handleSessionUpdate: the session of the client is looked up or created; the
\* phase (with updatedAt), the phaseData, merged field by field, and the
\* representation fields are set when the message carries them; the session is
\* broadcast to the session.
HandleSessionUpdate(registry, clientId, message) ==
  LET sessionId == registry[clientId].sessionId
      store     == GetOrCreateSession(sessions, sessionId)
      session   == store[sessionId]
      phased    == IF Truthy(message, "phase")
                     THEN [session EXCEPT !.currentPhase = message.phase,
                                          !.updatedAt = now]
                     ELSE session
      merged    == IF "phaseData" \in DOMAIN message
                     THEN [phased EXCEPT !.phaseData = Spread(@, message.phaseData)]
                     ELSE phased
      updated   == AssignIfTruthy(AssignIfTruthy(AssignIfTruthy(AssignIfTruthy(
                     merged, message, "country"), message, "council"),
                     message, "committee"), message, "topic")
  IN  /\ clients' = registry
      /\ sessions' = [store EXCEPT ![sessionId] = updated]
      /\ outbox' = BroadcastToSession(registry, sessionId,
                      SessionUpdatePayload(sessionId, sessions'[sessionId]))
      /\ UNCHANGED <<realtimeChat, now, runningPasses, tasks, taskQueue, activeTasks,
                     isProcessingQueue, broadcasts, systemBroadcasts>>

\* handleVoiceTranscript: the transcript is handled as the content of a chat
\* message; a message without transcript gives a chat message without content.
HandleVoiceTranscript(registry, clientId, message) ==
  HandleChatMessage(registry, clientId,
                    IF "transcript" \in DOMAIN message
                      THEN [content |-> message.transcript]
                      ELSE EmptyObject)

DocumentProcessed(sessionId, documentInfo) ==
  [type |-> "document_processed", documentInfo |-> documentInfo,
   sessionId |-> sessionId]

\* handleDocumentUpload: the documentInfo is pushed on the documents of the
\* session's agentContext, and document_processed is broadcast to the session.
HandleDocumentUpload(registry, clientId, message) ==
  LET sessionId == registry[clientId].sessionId
      store     == GetOrCreateSession(sessions, sessionId)
      context   == store[sessionId].agentContext
      documents == IF "documents" \in DOMAIN context THEN context.documents ELSE <<>>
      info      == IF "documentInfo" \in DOMAIN message THEN message.documentInfo
                   ELSE "undefined"
  IN  /\ clients' = registry
      /\ sessions' = [store EXCEPT ![sessionId].agentContext =
                        Spread(context, [documents |-> Append(documents, info)])]
      /\ outbox' = BroadcastToSession(registry, sessionId,
                                      DocumentProcessed(sessionId, info))
      /\ UNCHANGED <<realtimeChat, now, runningPasses, tasks, taskQueue, activeTasks,
                     isProcessingQueue, broadcasts, systemBroadcasts>>

\* sendAgentStatus: the active tasks and the queue length are sent to the client.
SendAgentStatus(registry, clientId) ==
  /\ clients' = registry
  /\ outbox' = SendToClient(registry, clientId,
                  [type |-> "agent_status",
                   activeAgents |-> {[type |-> tasks[id].type, status |-> tasks[id].status,
                                      taskId |-> id] : id \in activeTasks},
                   queueLength |-> Len(taskQueue)])
  /\ UNCHANGED <<realtimeChat, now, sessions, runningPasses, tasks, taskQueue, activeTasks,
                 isProcessingQueue, broadcasts, systemBroadcasts>>

\* A frame is the text a socket delivers: text that JSON.parse rejects, or the
\* text of a message object.
Malformed == [parses |-> FALSE]

Frame(message) == [parses |-> TRUE, message |-> message]

\* A catch block that sends the error to every client of the sender's session.
ParseFailureBroadcast(registry, clientId) ==
  BroadcastToSession(registry, registry[clientId].sessionId, ErrorPayload)

\* The catch block of handleClientMessage: the error is sent to the sender.
ParseFailure(registry, clientId) == SendToClient(registry, clientId, ErrorPayload)

\* A default branch that answers a message of an unknown type with the error.
UnknownMessageTypeAnswered(registry, clientId) ==
  SendToClient(registry, clientId, ErrorPayload)

\* The default branch of the switch: a warning is logged, nothing is sent.
UnknownMessageType(registry, clientId) == <<>>

\* handleClientMessage: lastActivity is refreshed, the frame parsed and the
\* message dispatched on its type; a frame that does not parse is answered with
\* an error, a message of an unknown type is only logged.
HandleClientMessage(clientId, data) ==
  /\ ~isProcessingQueue
  /\ clientId \in DOMAIN clients
  /\ LET registry == [clients EXCEPT ![clientId].lastActivity = now]
     IN  IF ~data.parses
           THEN /\ clients' = registry
                /\ UNCHANGED <<realtimeChat, now, sessions, runningPasses, tasks, taskQueue,
                               activeTasks, isProcessingQueue, broadcasts,
                               systemBroadcasts>>
                /\ outbox' = ParseFailure(registry, clientId)
           ELSE CASE data.message.type = "auth" ->
                       HandleAuth(registry, clientId, data.message)
                  [] data.message.type = "chat" ->
                       HandleChatMessage(registry, clientId, data.message)
                  [] data.message.type = "session_update" ->
                       HandleSessionUpdate(registry, clientId, data.message)
                  [] data.message.type = "voice_transcript" ->
                       HandleVoiceTranscript(registry, clientId, data.message)
                  [] data.message.type = "document_upload" ->
                       HandleDocumentUpload(registry, clientId, data.message)
                  [] data.message.type = "agent_status" ->
                       SendAgentStatus(registry, clientId)
                  [] OTHER ->
                       /\ clients' = registry
                       /\ outbox' = UnknownMessageType(registry, clientId)
                       /\ UNCHANGED <<realtimeChat, now, sessions, runningPasses, tasks, taskQueue,
                                      activeTasks, isProcessingQueue, broadcasts,
                                      systemBroadcasts>>

\* A cleanup test that also evicts a client idle for exactly the timeout.
InactiveAtTimeout(client, time) == time - client.lastActivity >= IdleTimeout

\* The test of cleanupInactiveClients.
Inactive(client, time) == time - client.lastActivity > IdleTimeout

\* socket.terminate() on the socket of a client, as a socket call.
Terminate(clientId) == [to |-> clientId, data |-> [type |-> "terminate"]]

\* cleanupInactiveClients: every inactive client is terminated and deleted.
CleanupInactiveClients ==
  /\ ~isProcessingQueue
  /\ LET IsInactive(clientId) ==
           clientId \in DOMAIN clients /\ Inactive(clients[clientId], now)
         inactive == SelectSeq(ClientOrder, IsInactive)
     IN  /\ clients' = MapDelete(clients, {inactive[k] : k \in 1..Len(inactive)})
         /\ outbox' = [k \in 1..Len(inactive) |-> Terminate(inactive[k])]
  /\ UNCHANGED <<realtimeChat, now, sessions, runningPasses, tasks, taskQueue, activeTasks,
                 isProcessingQueue, broadcasts, systemBroadcasts>>

\* The clock advances by exactly the idle timeout or by one millisecond more.
Durations == {IdleTimeout, IdleTimeout + 1}

TimePasses(duration) ==
  /\ ~isProcessingQueue
  /\ now + duration <= MaxIdlePeriods * (IdleTimeout + 1)
  /\ now' = now + duration
  /\ outbox' = <<>>
  /\ UNCHANGED <<realtimeChat, clients, sessions, runningPasses, tasks, taskQueue, activeTasks,
                 isProcessingQueue, broadcasts, systemBroadcasts>>

\* The number of chat frames handled so far: every one is in a history.
RECURSIVE HistoryTotal(_, _)
HistoryTotal(store, sessionIds) ==
  IF sessionIds = {} THEN 0
  ELSE LET sessionId == CHOOSE x \in sessionIds : TRUE
       IN  Len(store[sessionId].messageHistory)
             + HistoryTotal(store, sessionIds \ {sessionId})

ChatsHandled == HistoryTotal(sessions, DOMAIN sessions)

\* The frames the clients send: auth that names user and session, auth that
\* leaves one or both to the defaults, chat with and without content, a ping,
\* and text that is not JSON.
AuthFrames ==
  {Frame([type |-> "auth", userId |-> "u1", sessionId |-> sessionId]) :
     sessionId \in AuthSessionIds}

DefaultingAuthFrames ==
  {Frame([type |-> "auth"]), Frame([type |-> "auth", userId |-> "u1"]),
   Frame([type |-> "auth", userId |-> "", sessionId |-> "s1"])}

ChatFrames == {Frame([type |-> "chat", content |-> <<"hello">>]), Frame([type |-> "chat"])}

OtherFrames == {Frame([type |-> "ping"]), Malformed}

\* The connection registry: clients connect, authenticate, chat, fall silent and
\* are cleaned up.  No scheduling pass runs.
RegistryNext ==
  \/ \E clientId \in ClientIds : Connect(clientId)
  \/ \E clientId \in ClientIds : SocketClosing(clientId)
  \/ \E clientId \in ClientIds : OnClose(clientId)
  \/ \E clientId \in ClientIds, data \in AuthFrames \cup OtherFrames :
       HandleClientMessage(clientId, data)
  \/ /\ ChatsHandled < MaxRegistryChats
     /\ \E clientId \in ClientIds, data \in ChatFrames :
          HandleClientMessage(clientId, data)
  \/ CleanupInactiveClients
  \/ \E duration \in Durations : TimePasses(duration)

RegistrySpec == Init /\ [][RegistryNext]_vars

\* addToSessionHistory applied again and again to one session, a millisecond
\* apart.
AppendMessage(sessionId) ==
  /\ now < MaxAppends
  /\ now' = now + 1
  /\ sessions' = AddToSessionHistory(sessions, sessionId,
                    ChatMessage([content |-> <<"hello">>], sessionId, now'))
  /\ outbox' = <<>>
  /\ UNCHANGED <<realtimeChat, clients, runningPasses, tasks, taskQueue, activeTasks,
                 isProcessingQueue, broadcasts, systemBroadcasts>>

\* Connections that authenticate again and again, chat and close.  No time
\* passes between the frames and no scheduling pass runs.
ConnectionNext ==
  \/ \E clientId \in ClientIds : Connect(clientId)
  \/ \E clientId \in ClientIds : SocketClosing(clientId)
  \/ \E clientId \in ClientIds : OnClose(clientId)
  \/ \E clientId \in ClientIds, data \in AuthFrames \cup DefaultingAuthFrames :
       HandleClientMessage(clientId, data)
  \/ /\ ChatsHandled < MaxChats
     /\ \E clientId \in ClientIds, data \in ChatFrames :
          HandleClientMessage(clientId, data)

ConnectionSpec == Init /\ [][ConnectionNext]_vars

\* Authentication: as ConnectionSpec, with fewer chat frames between the auth
\* frames.
AuthNext ==
  \/ \E clientId \in ClientIds : Connect(clientId)
  \/ \E clientId \in ClientIds : SocketClosing(clientId)
  \/ \E clientId \in ClientIds : OnClose(clientId)
  \/ \E clientId \in ClientIds, data \in AuthFrames \cup DefaultingAuthFrames :
       HandleClientMessage(clientId, data)
  \/ /\ ChatsHandled < MaxRegistryChats
     /\ \E clientId \in ClientIds, data \in ChatFrames :
          HandleClientMessage(clientId, data)

AuthSpec == Init /\ [][AuthNext]_vars

\* One word of every keyword class, in a fixed order, and the message contents
\* built from them: one content per set of classes, a content that matches no
\* class and one whose single word is in two classes.
ClassWords == <<"research", "motion", "draft", "URGENT", "track">>

ClassifyContents ==
  {LET Chosen(word) == word \in words IN SelectSeq(ClassWords, Chosen) :
     words \in SUBSET {ClassWords[k] : k \in 1..Len(ClassWords)}}
  \cup {<<"hello">>, <<"amendment">>}

\* The number of task plans made so far: the tasks of one plan share createdAt.
PlansMade == Cardinality({tasks[id].createdAt : id \in 1..Len(tasks)})

\* The classifier at work: one client connects and authenticates for session
\* s1, then moves the session through the phases and sends chat messages of
\* every content; the phase moves until the last plan is made.  No scheduling
\* pass runs.
ClassifyNext ==
  \/ Connect("c1")
  \/ HandleClientMessage("c1", Frame([type |-> "auth", userId |-> "u1", sessionId |-> "s1"]))
  \/ /\ "c1" \in DOMAIN clients
     /\ clients["c1"].sessionId = "s1"
     /\ PlansMade < MaxPlans
     /\ \E phase \in Phases \cup {""} :
          HandleClientMessage("c1", Frame([type |-> "session_update", phase |-> phase]))
  \/ /\ "c1" \in DOMAIN clients
     /\ clients["c1"].sessionId = "s1"
     /\ PlansMade < MaxPlans
     /\ \E content \in ClassifyContents :
          HandleClientMessage("c1", Frame([type |-> "chat", content |-> content]))

ClassifySpec == Init /\ [][ClassifyNext]_vars

\* Frames of every kind: two clients connect, authenticate for session s1, chat,
\* send pings and text that is not JSON, and close, while time passes.  No
\* cleanup and no scheduling pass runs.
FrameNext ==
  \/ \E clientId \in ClientIds : Connect(clientId)
  \/ \E clientId \in ClientIds : SocketClosing(clientId)
  \/ \E clientId \in ClientIds : OnClose(clientId)
  \/ \E clientId \in ClientIds :
       HandleClientMessage(clientId,
                           Frame([type |-> "auth", userId |-> "u1", sessionId |-> "s1"]))
  \/ \E clientId \in ClientIds, data \in OtherFrames : HandleClientMessage(clientId, data)
  \/ /\ ChatsHandled < MaxRegistryChats
     /\ \E clientId \in ClientIds :
          HandleClientMessage(clientId, Frame([type |-> "chat", content |-> <<"hello">>]))
  \/ TimePasses(IdleTimeout + 1)

FrameSpec == Init /\ [][FrameNext]_vars

\* The session_update messages of the session store's clients: with and
\* without a phase, a country and phaseData that adds and overwrites fields.
SessionUpdateFrames ==
  {Frame([type |-> "session_update", phase |-> phase, country |-> country]) :
     phase \in {"", "gsl"}, country \in {"", "France"}}
  \cup {Frame([type |-> "session_update", phaseData |-> phaseData]) :
          phaseData \in {[speakers |-> 1], [speakers |-> 2, motion |-> 1]}}
  \cup {Frame([type |-> "session_update", council |-> "UNSC", committee |-> "",
               topic |-> "water"])}

\* The session store: one client chats before or after it binds itself to
\* session s1 and updates the session, while time passes.  No scheduling pass
\* runs.
SessionNext ==
  \/ Connect("c1")
  \/ HandleClientMessage("c1", Frame([type |-> "auth", userId |-> "u1", sessionId |-> "s1"]))
  \/ /\ "c1" \in DOMAIN clients
     /\ clients["c1"].sessionId = "s1"
     /\ \E data \in SessionUpdateFrames : HandleClientMessage("c1", data)
  \/ /\ ChatsHandled < MaxRegistryChats
     /\ HandleClientMessage("c1", Frame([type |-> "chat", content |-> <<"hello">>]))
  \/ TimePasses(IdleTimeout + 1)

SessionSpec == Init /\ [][SessionNext]_vars

\* Delivery: two clients of session s1, whose sockets may close or start to
\* throw, chat; the tasks are scheduled and their results published.
DeliveryNext ==
  \/ \E clientId \in ClientIds : Connect(clientId)
  \/ \E clientId \in ClientIds :
       HandleClientMessage(clientId,
                           Frame([type |-> "auth", userId |-> "u1", sessionId |-> "s1"]))
  \/ \E clientId \in ClientIds : SocketBreaks(clientId)
  \/ \E clientId \in ClientIds : SocketClosing(clientId)
  \/ /\ ChatsHandled < MaxChats
     /\ \E clientId \in ClientIds :
          /\ clientId \in DOMAIN clients
          /\ clients[clientId].sessionId = "s1"
          /\ HandleClientMessage(clientId, Frame([type |-> "chat", content |-> <<"hello">>]))
  \/ StartTaskProcessor
  \/ ProcessTaskQueue
  \/ ProcessTaskQueueReturns
  \/ \E id \in activeTasks : ExecuteTaskSucceeds(id)
  \/ \E id \in activeTasks, message \in ErrorMessages : ExecuteTaskFails(id, message)

DeliverySpec == Init /\ [][DeliveryNext]_vars

\* The scheduler under fair scheduling: finitely many messages arrive, some of
\* them with a plan of two chained tasks.  The interval timer keeps firing, a
\* running pass keeps running, and the specialist of every active task
\* eventually fulfils or rejects its promise.
ChainMessages ==
  {[content |-> <<"URGENT">>], [content |-> <<"draft">>], [content |-> <<"hello">>]}

ChainNext ==
  \/ /\ PlansMade < MaxChats
     /\ \E message \in ChainMessages : ChatMessageArrives("s1", message)
  \/ StartTaskProcessor
  \/ ProcessTaskQueue
  \/ ProcessTaskQueueReturns
  \/ \E id \in activeTasks : ExecuteTaskSucceeds(id)
  \/ \E id \in activeTasks, message \in ErrorMessages : ExecuteTaskFails(id, message)

Fairness ==
  /\ WF_vars(StartTaskProcessor)
  /\ WF_vars(ProcessTaskQueue)
  /\ WF_vars(ProcessTaskQueueReturns)
  /\ \A id \in 1..(2 * MaxChats) :
       WF_vars(ExecuteTaskSucceeds(id)
                 \/ \E message \in ErrorMessages : ExecuteTaskFails(id, message))

LiveSpec == Init /\ [][ChainNext]_vars /\ Fairness

\* The number of documents uploaded so far, over all sessions.
RECURSIVE DocumentsTotal(_, _)
DocumentsTotal(store, sessionIds) ==
  IF sessionIds = {} THEN 0
  ELSE LET sessionId == CHOOSE x \in sessionIds : TRUE
           context   == store[sessionId].agentContext
       IN  (IF "documents" \in DOMAIN context THEN Len(context.documents) ELSE 0)
             + DocumentsTotal(store, sessionIds \ {sessionId})

\* The frames of a client that has something to say to its session.
SessionFrames ==
  {Frame([type |-> "chat", content |-> <<"hello">>]),
   Frame([type |-> "voice_transcript", transcript |-> <<"hello">>]),
   Frame([type |-> "session_update", phase |-> "gsl"]),
   Frame([type |-> "document_upload", documentInfo |-> "doc"]),
   Frame([type |-> "agent_status"])}

\* Clients that talk without having authenticated: two clients connect, one of
\* them may authenticate for session s1, and both chat, dictate, update their
\* session, upload documents and ask for the agent status; the tasks are
\* scheduled and their results published.
UnauthenticatedNext ==
  \/ \E clientId \in ClientIds : Connect(clientId)
  \/ HandleClientMessage("c2", Frame([type |-> "auth", userId |-> "u1", sessionId |-> "s1"]))
  \/ /\ ChatsHandled < MaxRegistryChats
     /\ DocumentsTotal(sessions, DOMAIN sessions) < MaxUploads
     /\ \E clientId \in ClientIds, data \in SessionFrames :
          HandleClientMessage(clientId, data)
  \/ StartTaskProcessor
  \/ ProcessTaskQueue
  \/ ProcessTaskQueueReturns
  \/ \E id \in activeTasks : ExecuteTaskSucceeds(id)
  \/ \E id \in activeTasks, message \in ErrorMessages : ExecuteTaskFails(id, message)

UnauthenticatedSpec == Init /\ [][UnauthenticatedNext]_vars

\* The values a specialist returns: messages arrive, the tasks are scheduled and
\* the specialist of a task fulfils its promise with a result or with
\* undefined, or rejects it.  Between the throw and the catch block of
\* executeTask nothing else runs.
ResultNext ==
  \/ /\ ~InCatch
     /\ PlansMade < MaxChats
     /\ \E message \in ChainMessages : ChatMessageArrives("s1", message)
  \/ ~InCatch /\ StartTaskProcessor
  \/ ~InCatch /\ ProcessTaskQueue
  \/ ~InCatch /\ ProcessTaskQueueReturns
  \/ ~InCatch /\ \E id \in activeTasks : ExecuteTaskSucceeds(id)
  \/ ~InCatch /\ \E id \in activeTasks, message \in ErrorMessages :
                    ExecuteTaskFails(id, message)
  \/ ~InCatch /\ \E id \in activeTasks : ExecuteTaskResultUndefined(id)
  \/ \E id \in activeTasks : ExecuteTaskCatchesTypeError(id)

ResultSpec == Init /\ [][ResultNext]_vars

\* ------------------------------------------------------ the hook's steps
\* Every step of the hook starts with an empty list of socket.send calls, and
\* is taken only while the sockets, the dropped sockets and the pending
\* timeouts it leaves are within the bounds.
Step(h) ==
  /\ h.created <= MaxSockets
  /\ OrphansTotal(h) <= MaxOrphans
  /\ h.timers <= MaxTimers
  /\ realtimeChat' = h
  /\ UNCHANGED orchestratorVars

Fresh == [realtimeChat EXCEPT !.sent = <<>>]

\* The component mounts, or its user calls connect().
UserConnects == Step(connect(Fresh))

\* The store gets a current session, before the component that uses the hook
\* mounts.
SessionSelected ==
  /\ ~realtimeChat.currentSession
  /\ realtimeChat.created = 0
  /\ Step([Fresh EXCEPT !.currentSession = TRUE])

\* The user sends a message; the messages are numbered as they are sent.
UserSendsMessage ==
  /\ realtimeChat.nextMessage <= MaxSends
  /\ Step(sendMessage([Fresh EXCEPT !.nextMessage = @ + 1],
                      [type |-> "chat", content |-> realtimeChat.nextMessage]))

\* The user calls disconnect(), or the component unmounts.
UserDisconnects ==
  /\ realtimeChat.ws # "null"
  /\ Step(disconnect(Fresh))

\* The socket in wsRef opens.
SocketOpens ==
  /\ realtimeChat.ws = "CONNECTING"
  /\ Step(onopen([Fresh EXCEPT !.ws = "OPEN"]))

\* The socket in wsRef closes: the connection attempt fails (error event and
\* close event with code 1006), or the open connection is closed with a code.
SocketCloses(code) ==
  /\ \/ realtimeChat.ws = "CONNECTING" /\ code = 1006
     \/ realtimeChat.ws = "OPEN"
  /\ Step(onclose([Fresh EXCEPT !.ws = "CLOSED"], code))

\* A socket that is no longer in wsRef opens.
OrphanOpens ==
  /\ realtimeChat.orphans["CONNECTING"] > 0
  /\ Step(onopen([Fresh EXCEPT !.orphans["CONNECTING"] = @ - 1,
                               !.orphans["OPEN"] = @ + 1]))

\* The close event of a socket that is no longer in wsRef.
OrphanCloses(kind, code) ==
  /\ realtimeChat.orphans[kind] > 0
  /\ \/ kind = "CONNECTING" /\ code = 1006
     \/ kind = "OPEN"
     \/ kind = "CLOSING_1000" /\ code = 1000
     \/ kind = "CLOSING_1006" /\ code = 1006
  /\ Step(onclose([Fresh EXCEPT !.orphans[kind] = @ - 1], code))

\* A reconnect timeout fires, the one in the ref or one the ref has lost, and
\* calls connect().
ReconnectTimeoutFires(inRef) ==
  /\ IF inRef THEN realtimeChat.timeoutRef
              ELSE realtimeChat.timers > (IF realtimeChat.timeoutRef THEN 1 ELSE 0)
  /\ Step(connect([Fresh EXCEPT !.timers = @ - 1,
                                !.timeoutRef = IF inRef THEN FALSE ELSE @]))

CloseCodes == {1000, 1006}

\* The reconnect loop: sockets open, fail and close, the user connects,
\* disconnects and now and then sends a message.
ReconnectNext ==
  \/ UserConnects
  \/ SessionSelected
  \/ realtimeChat.nextMessage <= MaxReconnectSends /\ UserSendsMessage
  \/ UserDisconnects
  \/ SocketOpens
  \/ \E code \in CloseCodes : SocketCloses(code)
  \/ OrphanOpens
  \/ \E kind \in OrphanKinds, code \in CloseCodes : OrphanCloses(kind, code)
  \/ \E inRef \in BOOLEAN : ReconnectTimeoutFires(inRef)

ReconnectSpec == Init /\ [][ReconnectNext]_vars

FewSockets == realtimeChat'.created <= MaxQueueSockets

\* The offline queue: the user sends messages while the socket connects, is
\* open and is closed; the socket opens, closes abnormally and is reconnected.
QueueNext ==
  \/ realtimeChat.ws = "null" /\ UserConnects /\ FewSockets
  \/ SessionSelected
  \/ UserSendsMessage /\ FewSockets
  \/ UserDisconnects
  \/ SocketOpens
  \/ SocketCloses(1006)
  \/ \E kind \in OrphanKinds, code \in CloseCodes : OrphanCloses(kind, code)
  \/ \E inRef \in BOOLEAN : ReconnectTimeoutFires(inRef) /\ FewSockets

QueueSpec == Init /\ [][QueueNext]_vars

HistoryNext == \E sessionId \in SessionIds : AppendMessage(sessionId)

HistorySpec == Init /\ [][HistoryNext]_vars

\* ------------------------------------------------------------ vocabulary
TaskIds == 1..Len(tasks)

Terminal == {"completed", "failed"}

InProgress == {id \in TaskIds : tasks[id].status = "in_progress"}

\* ------------------------------------------------------------------- C1
\* C1: in every reachable state the number of tasks in status in_progress, and
\* the size of the active set, is at most the concurrency cap of 5.
C1_ConcurrencyCap ==
  /\ Cardinality(InProgress) <= MaxConcurrentTasks
  /\ Cardinality(activeTasks) <= MaxConcurrentTasks

\* The cap is reached while a task is still waiting in the queue.
C1_Witness ==
  /\ Cardinality(InProgress) = MaxConcurrentTasks
  /\ Len(taskQueue) > 0
  /\ ~isProcessingQueue

Dispatched(id) == tasks[id].status = "pending" /\ tasks'[id].status = "in_progress"

\* Every dependency of task number id has reached a terminal state.
Eligible(id) == \A depId \in tasks[id].dependencies : tasks[depId].status \in Terminal

\* ------------------------------------------------------------------- C3
\* C3: a task is dequeued for execution no later than any pending task of lower
\* priority.  Stated for the pending tasks that wait for no dependency: no task
\* is dequeued for execution while a task of strictly higher priority, all of
\* whose dependencies have terminated, is still pending.
C3_PriorityOrder ==
  [][\A id \in TaskIds :
       Dispatched(id) =>
         \A other \in TaskIds :
           (tasks[other].status = "pending" /\ Eligible(other)) =>
             priorityOrder[tasks[other].priority] <= priorityOrder[tasks[id].priority]]_vars

\* ------------------------------------------------------------------- C4
\* C4: of two pending tasks of equal priority the one created earlier is
\* dequeued for execution first.  Stated for the pending tasks that wait for no
\* dependency: no task is dequeued for execution while a task of the same
\* priority that was created earlier, all of whose dependencies have
\* terminated, is still pending.
C4_FifoTieBreak ==
  [][\A id \in TaskIds :
       Dispatched(id) =>
         \A other \in TaskIds :
           (/\ tasks[other].status = "pending"
            /\ Eligible(other)
            /\ tasks[other].priority = tasks[id].priority) =>
             tasks[other].createdAt >= tasks[id].createdAt]_vars

\* ------------------------------------------------------------------- C5
\* Task number id fails the dependency check of the pass.
Blocked(id) == tasks[id].dependencies # {} /\ ~DependenciesMet(id)

\* C5: every scheduling pass terminates and resets the single-flight flag.  A
\* task that fails the dependency check is only moved to the back of the queue,
\* which changes neither the active set nor any status; a pass can therefore
\* leave its loop only if, whenever the loop condition holds, some queued task
\* passes the dependency check.
C5_PassTerminates ==
  (isProcessingQueue /\ LoopCondition) =>
    \E i \in 1..Len(taskQueue) : ~Blocked(taskQueue[i])

\* ------------------------------------------------------------------- C6
\* Task number id has a dependency in the active set whose status is not completed.
WaitsForActive(id) ==
  \E depId \in tasks[id].dependencies :
    depId \in activeTasks /\ tasks[depId].status # "completed"

\* Number of occurrences of id in the queue q.
Occurrences(q, id) == Cardinality({i \in 1..Len(q) : q[i] = id})

\* C6: when an iteration of a scheduling pass examines a pending task that has
\* a dependency in the active set with a status other than completed, the task
\* stays in the queue (once) with status pending, is not added to the active
\* set, and nothing is broadcast for it (no specialist is invoked).
C6_BlockedTaskStaysQueued ==
  [][(isProcessingQueue /\ LoopCondition /\ WaitsForActive(Head(taskQueue))) =>
       LET id == Head(taskQueue)
       IN  /\ Occurrences(taskQueue', id) = 1
           /\ tasks'[id].status = "pending"
           /\ id \notin activeTasks'
           /\ activeTasks' = activeTasks
           /\ broadcasts'[id] = broadcasts[id]]_vars

\* A pass has put a waiting task behind a task that the comparator ranks after it.
C6_Witness ==
  /\ isProcessingQueue
  /\ \E i, j \in 1..Len(taskQueue) :
       /\ i < j
       /\ WaitsForActive(taskQueue[j])
       /\ tasks[taskQueue[j]].status = "pending"
       /\ CompareTasks(tasks, taskQueue[j], taskQueue[i]) < 0

\* ------------------------------------------------------------------- C7
\* C7: fail-open chaining.  A dependent task is not dequeued for execution while
\* a dependency is unfinished; and when a pass with a free slot examines a task
\* whose dependencies have all failed (and left the active set), it moves the
\* task to in_progress.
C7_FailOpenChaining ==
  [][/\ \A id \in TaskIds : Dispatched(id) => Eligible(id)
     /\ (/\ isProcessingQueue
         /\ LoopCondition
         /\ tasks[Head(taskQueue)].dependencies # {}
         /\ \A depId \in tasks[Head(taskQueue)].dependencies :
              tasks[depId].status = "failed" /\ depId \notin activeTasks) =>
          /\ tasks'[Head(taskQueue)].status = "in_progress"
          /\ Head(taskQueue) \in activeTasks']_vars

\* The second task of a chain runs although the first one has failed.
C7_Witness ==
  \E id \in TaskIds :
    /\ tasks[id].dependencies # {}
    /\ tasks[id].status = "in_progress"
    /\ id \in activeTasks
    /\ \A depId \in tasks[id].dependencies : tasks[depId].status = "failed"

\* ------------------------------------------------------------------- C8
\* C8: with an empty active set and n > 5 independent pending tasks, one pass
\* moves exactly 5 of them to in_progress, and as long as none of those has
\* terminated the other n - 5 stay pending in the queue.  Checked under
\* BurstSpec, where the independent tasks all arrive before the first pass.
C8_BurstFillsCap ==
  (/\ Len(tasks) > MaxConcurrentTasks
   /\ ~isProcessingQueue
   /\ \E id \in TaskIds : tasks[id].status # "pending"
   /\ \A id \in TaskIds : tasks[id].status \notin Terminal) =>
    /\ Cardinality(InProgress) = MaxConcurrentTasks
    /\ InProgress = activeTasks
    /\ Len(taskQueue) = Len(tasks) - MaxConcurrentTasks
    /\ \A i \in 1..Len(taskQueue) : tasks[taskQueue[i]].status = "pending"

\* The pass over more than 5 independent tasks has returned.
C8_Witness ==
  /\ Len(tasks) > MaxConcurrentTasks
  /\ ~isProcessingQueue
  /\ Cardinality(InProgress) = MaxConcurrentTasks
  /\ Len(taskQueue) = Len(tasks) - MaxConcurrentTasks
  /\ \A id \in TaskIds : tasks[id].dependencies = {} /\ tasks[id].status \notin Terminal

LastBroadcast(id) == broadcasts'[id][Len(broadcasts'[id])]

C11_FailureIsolated ==
  [][/\ \A id \in TaskIds :
          tasks[id].error # "none" =>
            /\ tasks'[id] = tasks[id]
            /\ tasks[id].status = "failed"
            /\ id \notin activeTasks'
            /\ Occurrences(taskQueue', id) = 0
     /\ \A id \in TaskIds :
          (tasks[id].error = "none" /\ tasks'[id].error # "none") =>
            /\ tasks'[id].status = "failed"
            /\ taskQueue' = taskQueue
            /\ activeTasks' = activeTasks \ {id}
            /\ Occurrences(taskQueue, id) = 0
            /\ \A other \in TaskIds \ {id} : tasks'[other] = tasks[other]]_vars

\* C11 happens: every task that has ended has failed, and more tasks than the
\* cap admits at once have been dispatched, so one of them was dispatched after
\* a failure; a task with no dependency has completed next to a failed one.
C11_Witness ==
  /\ \E id \in TaskIds : tasks[id].status = "failed"
  /\ \E id \in TaskIds : tasks[id].status = "completed" /\ tasks[id].dependencies = {}
  /\ Cardinality({id \in TaskIds : tasks[id].status = "failed"}) +
       Cardinality(activeTasks) > MaxConcurrentTasks

\* C17: scheduling passes are single-flight.  At most one activation of
\* processTaskQueue is running, the flag is set exactly while one is, and while
\* a pass is running no step starts another one.
C17_SingleFlight ==
  [][/\ runningPasses \in {0, 1}
     /\ isProcessingQueue <=> runningPasses = 1
     /\ isProcessingQueue => runningPasses' <= runningPasses]_vars

\* C17 happens: a pass is running with a task still queued, the state in which a
\* timer callback finds the queue non-empty.
C17_Witness ==
  /\ isProcessingQueue
  /\ runningPasses = 1
  /\ Len(taskQueue) > 0
  /\ activeTasks # {}

\* C12: after any sequence of appends a history holds at most HistoryCap
\* messages, and they are the last ones appended, in the order of the appends.
\* In HistorySpec the messages appended to the session carry the ids 1..now.
C12_HistoryCapped ==
  \A sessionId \in DOMAIN sessions :
    LET history == sessions[sessionId].messageHistory
    IN  /\ Len(history) <= HistoryCap
        /\ Len(history) = (IF now < HistoryCap THEN now ELSE HistoryCap)
        /\ \A k \in 1..Len(history) : history[k].id = now - Len(history) + k

\* C12 happens: more messages than the cap have been appended and the oldest
\* ones are gone.
C12_Witness ==
  /\ now > HistoryCap + 1
  /\ \E sessionId \in DOMAIN sessions :
       /\ Len(sessions[sessionId].messageHistory) = HistoryCap
       /\ sessions[sessionId].messageHistory[1].id = now - HistoryCap + 1

\* The payloads that are broadcast to a session, and the session each names.
SessionPayloadTypes == {"message", "session_update", "agent_response", "agent_status"}

PayloadSession(data) ==
  CASE data.type = "message" -> data.message.sessionId
    [] data.type = "session_update" -> data.session.id
    [] OTHER -> data.sessionId

\* The clients for which the socket calls in box carry data.
Recipients(box, data) == {box[k].to : k \in {j \in 1..Len(box) : box[j].data = data}}

\* The registered clients bound to sessionId whose socket is open.
OpenClientsOf(registry, sessionId) ==
  {clientId \in DOMAIN registry :
     /\ registry[clientId].sessionId = sessionId
     /\ registry[clientId].readyState = "OPEN"}

\* C13: a payload broadcast to session S is sent to exactly the registered
\* clients bound to S whose socket is open, and to no client bound to another
\* session or to no session.
C13_BroadcastExact ==
  \A k \in 1..Len(outbox) :
    outbox[k].data.type \in SessionPayloadTypes =>
      /\ Recipients(outbox, outbox[k].data) =
           OpenClientsOf(clients, PayloadSession(outbox[k].data))
      /\ \A clientId \in Recipients(outbox, outbox[k].data) :
           clients[clientId].sessionId # ""

\* C14: the session a registered client is bound to does not change once it has
\* been set, whatever messages the client sends.
C14_BoundSessionStable ==
  [][\A clientId \in DOMAIN clients \cap DOMAIN clients' :
       clients[clientId].sessionId # "" =>
         clients'[clientId].sessionId = clients[clientId].sessionId]_vars

\* The auth frames of AuthSpec.
AllAuthFrames == AuthFrames \cup DefaultingAuthFrames

\* C15 as stated: handling an auth message binds the client to the session asked
\* for, leaves that session in the session store, created if it was absent, and
\* sends auth_success with the client id, user id and session id to the client.
C15_AuthCreatesSession ==
  [][\A clientId \in ClientIds, data \in AllAuthFrames :
       HandleClientMessage(clientId, data) =>
         /\ Truthy(data.message, "sessionId") =>
              clients'[clientId].sessionId = data.message.sessionId
         /\ clients'[clientId].sessionId \in DOMAIN sessions'
         /\ outbox' = <<[to |-> clientId,
                        data |-> AuthSuccess(clientId, clients'[clientId].userId,
                                             clients'[clientId].sessionId)]>>]_vars

\* C15 amended: handling an auth message binds the client to the session id
\* asked for, or to a freshly generated id when the message names none, sets its
\* user id to the one given or to 'anonymous', leaves every other client and the
\* session store as they were (no session is created), and, when the client's
\* socket is open, sends it auth_success with the client id, user id and
\* session id, and nothing otherwise.
C15_AuthBinds ==
  [][\A clientId \in ClientIds, data \in AllAuthFrames :
       HandleClientMessage(clientId, data) =>
         /\ IF Truthy(data.message, "sessionId")
              THEN clients'[clientId].sessionId = data.message.sessionId
              ELSE /\ clients'[clientId].sessionId \in GeneratedSessionIds
                   /\ clients'[clientId].sessionId \notin DOMAIN sessions
                   /\ \A other \in DOMAIN clients :
                        clients[other].sessionId # clients'[clientId].sessionId
         /\ clients'[clientId].userId =
              (IF Truthy(data.message, "userId") THEN data.message.userId
               ELSE "anonymous")
         /\ DOMAIN clients' = DOMAIN clients
         /\ \A other \in DOMAIN clients \ {clientId} : clients'[other] = clients[other]
         /\ sessions' = sessions
         /\ outbox' = (IF clients[clientId].readyState = "OPEN"
                         THEN <<[to |-> clientId,
                                 data |-> AuthSuccess(clientId, clients'[clientId].userId,
                                                      clients'[clientId].sessionId)]>>
                         ELSE <<>>)]_vars

\* C15 happens: a client has just received auth_success for a session that is
\* not in the session store, while another session is.
C15_Witness ==
  /\ Len(outbox) = 1
  /\ outbox[1].data.type = "auth_success"
  /\ outbox[1].data.sessionId = clients[outbox[1].to].sessionId
  /\ outbox[1].data.sessionId \notin DOMAIN sessions
  /\ DOMAIN sessions # {}

\* C16: a cleanup run deletes exactly the clients whose last activity is more
\* than IdleTimeout ago and keeps the others as they are; no handler sends
\* anything to a client that is not registered; and a payload broadcast to a
\* session reaches every registered client bound to it whose socket is open.
C16_CleanupEvictsIdle ==
  [][/\ CleanupInactiveClients =>
          /\ DOMAIN clients' = {clientId \in DOMAIN clients :
                                  now - clients[clientId].lastActivity <= IdleTimeout}
          /\ \A clientId \in DOMAIN clients' : clients'[clientId] = clients[clientId]
     /\ \A k \in 1..Len(outbox') :
          outbox'[k].data.type # "terminate" =>
            /\ outbox'[k].to \in DOMAIN clients'
            /\ outbox'[k].data.type \in SessionPayloadTypes =>
                 OpenClientsOf(clients', PayloadSession(outbox'[k].data))
                   \subseteq Recipients(outbox', outbox'[k].data)]_vars

\* C16 happens: cleanup has just terminated a client that was idle for longer
\* than the timeout and has kept a client, bound to a session, that was idle
\* for exactly the timeout.
C16_Witness ==
  /\ \E k \in 1..Len(outbox) :
       outbox[k].data.type = "terminate" /\ outbox[k].to \notin DOMAIN clients
  /\ \E clientId \in DOMAIN clients :
       /\ now - clients[clientId].lastActivity = IdleTimeout
       /\ clients[clientId].sessionId \in AuthSessionIds

\* C18: when the classification of a chat message throws, the step broadcasts
\* exactly one agent_response to the session, flagged as an error and of agent
\* type system, every open client of the session receives this one and no other
\* agent_response, and the queue, the tasks and the active set stay as they were.
C18_ClassifierThrows ==
  [][\A clientId \in ClientIds, data \in ChatFrames :
       (~HasContent(data.message) /\ HandleClientMessage(clientId, data)) =>
         LET sessionId == clients[clientId].sessionId
             IsError(payload) ==
               /\ payload.type = "agent_response"
               /\ payload.isError
               /\ payload.agentType = "system"
               /\ payload.sessionId = sessionId
             Responses(to) == {k \in 1..Len(outbox') :
                                 /\ outbox'[k].to = to
                                 /\ outbox'[k].data.type = "agent_response"}
         IN  /\ taskQueue' = taskQueue
             /\ tasks' = tasks
             /\ activeTasks' = activeTasks
             /\ Len(systemBroadcasts') = Len(systemBroadcasts) + 1
             /\ IsError(systemBroadcasts'[Len(systemBroadcasts')])
             /\ \A to \in ClientIds :
                  /\ Cardinality(Responses(to)) =
                       (IF to \in OpenClientsOf(clients', sessionId) THEN 1 ELSE 0)
                  /\ \A k \in Responses(to) : IsError(outbox'[k].data)]_vars

\* C18 happens: a client of a session has just received the error response
\* while a task made for an earlier message is pending in the queue.
C18_Witness ==
  /\ taskQueue # <<>>
  /\ systemBroadcasts # <<>>
  /\ \E k \in 1..Len(outbox) :
       /\ outbox[k].data.type = "agent_response"
       /\ outbox[k].data.isError
       /\ outbox[k].data.sessionId \in AuthSessionIds

\* The tasks of the plan task number id belongs to.
PlanOf(id) == {other \in TaskIds : tasks[other].createdAt = tasks[id].createdAt}

\* C19: a plan made while the session is in the crisis phase holds a crisis task
\* and a research task, and every task of it has priority high.
C19_CrisisPlan ==
  \A id \in TaskIds :
    tasks[id].phase = "crisis" =>
      /\ \E other \in PlanOf(id) : tasks[other].type = "crisis"
      /\ \E other \in PlanOf(id) : tasks[other].type = "research"
      /\ \A other \in PlanOf(id) : tasks[other].priority = "high"

\* C20: when the content matches the research class and the writing class, in
\* whatever phase, the plan is a research task followed by a writing task, and
\* the dependencies of the writing task are exactly the research task.
C20_ResearchBeforeWriting ==
  \A id \in TaskIds :
    (Match(tasks[id].query, ResearchWords) /\ Match(tasks[id].query, WritingWords)) =>
      \E first \in PlanOf(id) :
        /\ PlanOf(id) = {first, first + 1}
        /\ tasks[first].type = "research"
        /\ tasks[first].dependencies = {}
        /\ tasks[first + 1].type = "writing"
        /\ tasks[first + 1].dependencies = {first}
        /\ Occurrences(taskQueue, first) = 1
        /\ Occurrences(taskQueue, first + 1) = 1

\* C20 happens: in the crisis phase a content that matches the research, the
\* writing, the policy and the crisis class has been planned.
C20_Witness ==
  \E id \in TaskIds :
    /\ tasks[id].type = "writing"
    /\ tasks[id].phase = "crisis"
    /\ Match(tasks[id].query, ResearchWords)
    /\ Match(tasks[id].query, WritingWords)
    /\ Match(tasks[id].query, PolicyWords)
    /\ Match(tasks[id].query, CrisisWords)

\* The content matches none of the five keyword classes.
MatchesNoClass(content) ==
  /\ ~Match(content, ResearchWords)
  /\ ~Match(content, PolicyWords)
  /\ ~Match(content, WritingWords)
  /\ ~Match(content, CrisisWords)
  /\ ~Match(content, AnalyticsWords)

\* C21: when the content matches no keyword class and the phase is lobby or gsl,
\* the plan is one research task of priority medium without dependencies.
C21_DefaultPlan ==
  \A id \in TaskIds :
    (MatchesNoClass(tasks[id].query) /\ tasks[id].phase \in {"lobby", "gsl"}) =>
      /\ PlanOf(id) = {id}
      /\ tasks[id].type = "research"
      /\ tasks[id].priority = "medium"
      /\ tasks[id].dependencies = {}
      /\ Occurrences(taskQueue, id) = 1

\* C21 happens: in the gsl phase a content that matches no class has been planned.
C21_Witness ==
  \E id \in TaskIds :
    /\ tasks[id].query = <<"hello">>
    /\ tasks[id].phase = "gsl"
    /\ tasks[id].type = "research"

\* The types of the tasks of the plan task number id belongs to.
PlanTypes(id) == {tasks[other].type : other \in PlanOf(id)}

\* C23: a plan made in the resolution phase holds a writing task and a policy
\* task; a plan made in the mods or unmods phase holds a research task and a
\* policy task.
C23_PhasePlans ==
  \A id \in TaskIds :
    /\ tasks[id].phase = "resolution" => {"writing", "policy"} \subseteq PlanTypes(id)
    /\ tasks[id].phase \in {"mods", "unmods"} =>
         {"research", "policy"} \subseteq PlanTypes(id)

\* C22: the dependencies of every plan form a linear chain.  The first task of a
\* plan has no dependency; every later task depends on exactly the task built
\* just before it, which belongs to the same plan; so no task depends on itself,
\* on a later task or on a task of another message.
C22_LinearChain ==
  \A id \in TaskIds :
    LET plan  == PlanOf(id)
        first == CHOOSE x \in plan : \A y \in plan : x <= y
    IN  /\ plan = first..(first + Cardinality(plan) - 1)
        /\ tasks[id].dependencies = (IF id = first THEN {} ELSE {id - 1})
        /\ tasks[id].dependencies \subseteq plan
        /\ \A depId \in tasks[id].dependencies : depId < id

\* C22 happens: two plans of two tasks have been built, one after the other.
C22_Witness ==
  \E id \in TaskIds :
    /\ id > 2
    /\ tasks[id].dependencies = {id - 1}
    /\ tasks[id - 2].dependencies = {id - 3}
    /\ tasks[id - 2].createdAt < tasks[id].createdAt

\* The queue q is in the order sortTaskQueue gives it.
Sorted(q) ==
  \A i, j \in 1..Len(q) : i < j => CompareTasks(tasks, q[i], q[j]) <= 0

\* C26: whenever no scheduling pass is running the pending queue is ordered by
\* priority, highest first, and within one priority by creation time, oldest
\* first.
C26_QueueSorted == ~isProcessingQueue => Sorted(taskQueue)

\* C28: the first payload broadcast for a task is the agent_status 'working',
\* broadcast in the step that makes the task in_progress; the agent_response
\* for the task comes after it, and nothing else is broadcast for the task.
C28_WorkingFirst ==
  [][\A id \in 1..Len(tasks') :
       LET sent == broadcasts'[id]
       IN  /\ tasks'[id].status = "pending" <=> sent = <<>>
           /\ sent # <<>> =>
                /\ sent[1].type = "agent_status"
                /\ sent[1].status = "working"
                /\ sent[1].taskId = id
           /\ \A k \in 2..Len(sent) : sent[k].type = "agent_response"
           /\ (id \in TaskIds /\ tasks[id].status = "pending" /\ sent # <<>>) =>
                /\ tasks'[id].status = "in_progress"
                /\ Len(sent) = 1]_vars

\* C28 happens: a task was announced as working and then answered, while another
\* task is announced and not answered yet.
C28_Witness ==
  /\ \E id \in TaskIds :
       /\ Len(broadcasts[id]) = 2
       /\ broadcasts[id][1].status = "working"
       /\ broadcasts[id][2].type = "agent_response"
  /\ \E id \in TaskIds :
       /\ tasks[id].status = "in_progress"
       /\ Len(broadcasts[id]) = 1

\* The registry with the lastActivity of every client left out.
Bindings(registry) ==
  [clientId \in DOMAIN registry |->
     [sessionId |-> registry[clientId].sessionId, userId |-> registry[clientId].userId,
      readyState |-> registry[clientId].readyState,
      sendThrows |-> registry[clientId].sendThrows]]

\* C25: a message of an unrecognized type is answered to no connection and
\* changes nothing but the sender's lastActivity: the other clients, every
\* binding, the sessions, the queue, the tasks and the active set stay as they
\* are.
C25_UnknownTypeIgnored ==
  [][\A clientId \in ClientIds :
       HandleClientMessage(clientId, Frame([type |-> "ping"])) =>
         /\ outbox' = <<>>
         /\ clients' = [clients EXCEPT ![clientId].lastActivity = now]
         /\ Bindings(clients') = Bindings(clients)
         /\ UNCHANGED <<sessions, tasks, taskQueue, activeTasks, broadcasts,
                        systemBroadcasts>>]_vars

\* C25 happens: a client bound to a session whose last frame, a ping, came after
\* a chat of the session and later than the chat's time; nothing was sent.
C25_Witness ==
  \E clientId \in DOMAIN clients :
    /\ clients[clientId].sessionId \in DOMAIN sessions
    /\ sessions[clients[clientId].sessionId].messageHistory # <<>>
    /\ clients[clientId].readyState = "OPEN"
    /\ clients[clientId].lastActivity = now
    /\ now > 0
    /\ outbox = <<>>

\* C29: a frame that does not parse leaves the sender registered and bound to
\* the same session; the only thing sent is at most one error, to the sender;
\* sessions, tasks, queue and active set stay as they are.
C29_MalformedNotFatal ==
  [][\A clientId \in ClientIds :
       HandleClientMessage(clientId, Malformed) =>
         /\ clientId \in DOMAIN clients'
         /\ DOMAIN clients' = DOMAIN clients
         /\ Bindings(clients') = Bindings(clients)
         /\ Len(outbox') <= 1
         /\ \A k \in 1..Len(outbox') :
              /\ outbox'[k].to = clientId
              /\ outbox'[k].data.type = "error"
         /\ UNCHANGED <<sessions, tasks, taskQueue, activeTasks, broadcasts,
                        systemBroadcasts>>]_vars

\* C29 happens: the error reply is the last thing sent, to a client that shares
\* its session with another open client.
C29_Witness ==
  /\ Len(outbox) = 1
  /\ outbox[1].data.type = "error"
  /\ \E other \in DOMAIN clients :
       /\ other # outbox[1].to
       /\ outbox[1].to \in DOMAIN clients
       /\ clients[other].sessionId = clients[outbox[1].to].sessionId
       /\ clients[other].sessionId \in SessionIds
       /\ clients[other].readyState = "OPEN"

\* C30: getOrCreateSession is idempotent.  For an id that has no session the
\* call adds one session, in phase lobby with an empty history and empty
\* representation fields, and leaves the others; for an id that has a session
\* the call returns the store as it is, so a second call changes nothing; and
\* no step of the program, whatever it looks up and updates, replaces a session
\* by a new one: its id and creation time stay, its history does not shrink and
\* a representation field that was set is not emptied.
C30_GetOrCreateIdempotent ==
  [][/\ \A sessionId \in KnownSessionIds :
          LET once  == GetOrCreateSession(sessions', sessionId)
              twice == GetOrCreateSession(once, sessionId)
          IN  /\ twice = once
              /\ sessionId \in DOMAIN sessions' => once = sessions'
              /\ sessionId \notin DOMAIN sessions' =>
                   /\ DOMAIN once = DOMAIN sessions' \cup {sessionId}
                   /\ \A other \in DOMAIN sessions' : once[other] = sessions'[other]
                   /\ once[sessionId].id = sessionId
                   /\ once[sessionId].currentPhase = "lobby"
                   /\ once[sessionId].messageHistory = <<>>
                   /\ once[sessionId].phaseData = EmptyObject
                   /\ \A field \in {"country", "council", "committee", "topic"} :
                        once[sessionId][field] = ""
     /\ \A sessionId \in DOMAIN sessions :
          /\ sessionId \in DOMAIN sessions'
          /\ sessions'[sessionId].id = sessionId
          /\ sessions'[sessionId].createdAt = sessions[sessionId].createdAt
          /\ Len(sessions'[sessionId].messageHistory)
               >= Len(sessions[sessionId].messageHistory)
          /\ DOMAIN sessions[sessionId].phaseData
               \subseteq DOMAIN sessions'[sessionId].phaseData
          /\ sessions[sessionId].country # "" => sessions'[sessionId].country # ""]_vars

\* C30 happens: a session created earlier has since got a phase, a country,
\* phaseData and a message, and was looked up again after all of them, while
\* other ids have no session yet.
C30_Witness ==
  /\ "s1" \in DOMAIN sessions
  /\ sessions["s1"].currentPhase = "gsl"
  /\ sessions["s1"].country = "France"
  /\ sessions["s1"].phaseData = [speakers |-> 2, motion |-> 1]
  /\ sessions["s1"].messageHistory # <<>>
  /\ sessions["s1"].createdAt < sessions["s1"].updatedAt
  /\ sessions["s1"].updatedAt < now
  /\ "s2" \notin DOMAIN sessions
  /\ "c1" \in DOMAIN clients
  /\ clients["c1"].sessionId = "s1"
  /\ Len(outbox) = 1
  /\ outbox[1].data.type = "session_update"

\* The clients of sessionId that a broadcast reaches: registered, bound to the
\* session, with an open socket whose send does not throw.
Reachable(registry, sessionId) ==
  {clientId \in OpenClientsOf(registry, sessionId) : ~registry[clientId].sendThrows}

\* C24: delivery is best-effort.  In every step that publishes a payload for a
\* task, the payload goes into the socket of every open client of the task's
\* session whose send does not throw, whatever the sends to the other clients
\* did; the task whose result is published is completed whether or not any
\* send succeeded, and a completed task stays completed.
C24_BestEffortDelivery ==
  [][\A id \in TaskIds :
       /\ Len(broadcasts'[id]) > Len(broadcasts[id]) =>
            LET data == broadcasts'[id][Len(broadcasts'[id])]
            IN  /\ Recipients(outbox', data) = Reachable(clients, tasks[id].sessionId)
                /\ Len(outbox') = Cardinality(Reachable(clients, tasks[id].sessionId))
                /\ (data.type = "agent_response" /\ ~data.isError) =>
                     tasks'[id].status = "completed"
       /\ tasks[id].status = "completed" => tasks'[id].status = "completed"]_vars

\* C24 happens: the result of a completed task went to the second client of the
\* session although the send to the first, open, client threw; and another task
\* is completed whose result reached no client at all.
C24_Witness ==
  /\ \E id \in TaskIds :
       /\ tasks[id].status = "completed"
       /\ Len(outbox) = 1
       /\ outbox[1].data = AgentResponse(tasks[id])
       /\ outbox[1].to = "c2"
       /\ "c1" \in OpenClientsOf(clients, tasks[id].sessionId)
       /\ clients["c1"].sendThrows
  /\ Cardinality({id \in TaskIds : tasks[id].status = "completed"}) > 1

\* C27: in the step that completes a task and broadcasts its result, the result
\* is appended to the history of the task's session, which grows by one entry.
C27_ResultInHistory ==
  [][\A id \in TaskIds :
       (tasks[id].status # "completed" /\ tasks'[id].status = "completed") =>
         /\ tasks[id].sessionId \in DOMAIN sessions'
         /\ Len(sessions'[tasks[id].sessionId].messageHistory)
              = Len(sessions[tasks[id].sessionId].messageHistory) + 1]_vars

\* C31: a session update changes only what it supplies.  The phase and each of
\* country, council, committee and topic is the supplied value when the message
\* carries a non-empty one and the old value otherwise; the phaseData has the
\* old and the supplied keys, with the supplied values where both have the key;
\* history, agent context, id, user and creation time of the session stay, and
\* so does every other session.
C31_UpdateOnlySupplied ==
  [][\A data \in SessionUpdateFrames :
       HandleClientMessage("c1", data) =>
         LET sessionId == clients["c1"].sessionId
             before    == GetOrCreateSession(sessions, sessionId)[sessionId]
             after     == sessions'[sessionId]
             message   == data.message
             supplied  == IF "phaseData" \in DOMAIN message THEN message.phaseData
                          ELSE EmptyObject
         IN  /\ \A field \in {"country", "council", "committee", "topic"} :
                  after[field] = (IF field \in DOMAIN message /\ message[field] # ""
                                    THEN message[field] ELSE before[field])
             /\ after.currentPhase = (IF "phase" \in DOMAIN message /\ message.phase # ""
                                        THEN message.phase ELSE before.currentPhase)
             /\ DOMAIN after.phaseData = DOMAIN before.phaseData \cup DOMAIN supplied
             /\ \A key \in DOMAIN after.phaseData :
                  after.phaseData[key] = (IF key \in DOMAIN supplied THEN supplied[key]
                                          ELSE before.phaseData[key])
             /\ after.messageHistory = before.messageHistory
             /\ after.agentContext = before.agentContext
             /\ after.id = before.id
             /\ after.userId = before.userId
             /\ after.createdAt = before.createdAt
             /\ DOMAIN sessions' = DOMAIN sessions \cup {sessionId}
             /\ \A other \in DOMAIN sessions \ {sessionId} :
                  sessions'[other] = sessions[other]]_vars

\* C31 happens: the session of the client was given a phase, a country and a
\* topic by different updates, its phaseData has a key that was overwritten and
\* one that was kept, its committee was never supplied, and the session of the
\* client's first chat still holds its message.
C31_Witness ==
  /\ "s1" \in DOMAIN sessions
  /\ sessions["s1"].currentPhase = "gsl"
  /\ sessions["s1"].country = "France"
  /\ sessions["s1"].topic = "water"
  /\ sessions["s1"].committee = ""
  /\ sessions["s1"].phaseData = [speakers |-> 1, motion |-> 1]
  /\ "" \in DOMAIN sessions
  /\ Len(sessions[""].messageHistory) = 1
  /\ Len(outbox) = 1
  /\ outbox[1].data.type = "session_update"

\* The number of places, queue positions and the active set, that hold task id.
Holders(id) == Occurrences(taskQueue, id) + (IF id \in activeTasks THEN 1 ELSE 0)

\* C32: task conservation.  Every task that is not completed or failed is held
\* exactly once, by the queue or by the active set and never by both; a pending
\* task is in the queue and a task in progress in the active set.  This holds
\* in every state, the states in the middle of a scheduling pass included.
C32_TaskConservation ==
  \A id \in TaskIds :
    /\ tasks[id].status \notin Terminal => Holders(id) = 1
    /\ tasks[id].status = "pending" => Occurrences(taskQueue, id) = 1
    /\ tasks[id].status = "in_progress" => id \in activeTasks

\* C32 happens: after a pass that has put a blocked task back, tasks are queued,
\* tasks are active and tasks have finished.
C32_Witness ==
  /\ ~isProcessingQueue
  /\ \E id \in TaskIds : tasks[id].status \in Terminal
  /\ \E id \in activeTasks : tasks[id].status = "in_progress"
  /\ \E i \in 1..Len(taskQueue) :
       /\ i < Len(taskQueue)
       /\ tasks[taskQueue[i]].dependencies # {}
       /\ CompareTasks(tasks, taskQueue[i + 1], taskQueue[i]) < 0

\* Every task is completed or failed and neither queued nor active.
Quiescent ==
  /\ taskQueue = <<>>
  /\ activeTasks = {}
  /\ \A id \in TaskIds : tasks[id].status \in Terminal

\* C33: liveness.  When finitely many tasks are enqueued, the timer keeps firing
\* and every specialist call ends, then from some point on every task is
\* completed or failed and the queue and the active set are empty.
C33_EventuallyQuiescent == <>[]Quiescent

\* C34: a client that has not authenticated receives no session broadcast.
\* What an unauthenticated client sends to its session (chat, dictation,
\* session update, document upload) is delivered to no other unauthenticated
\* client, and the payloads broadcast for the tasks it has triggered are
\* delivered to no unauthenticated client.
C34_UnauthenticatedIsolated ==
  [][/\ \A clientId \in ClientIds, data \in SessionFrames :
          (/\ clientId \in DOMAIN clients
           /\ clients[clientId].sessionId = ""
           /\ data.message.type # "agent_status"
           /\ HandleClientMessage(clientId, data)) =>
            \A k \in 1..Len(outbox') :
              outbox'[k].to = clientId \/ clients[outbox'[k].to].sessionId # ""
     /\ \A id \in TaskIds :
          Len(broadcasts'[id]) > Len(broadcasts[id]) =>
            \A k \in 1..Len(outbox') : clients[outbox'[k].to].sessionId # ""]_vars

\* C37: every plan has one or two tasks, all of the same priority, which is
\* high when the content matches the crisis keywords or the session is in the
\* crisis phase and medium otherwise; no task is low or critical.
C37_PlanShape ==
  \A id \in TaskIds :
    /\ Cardinality(PlanOf(id)) \in {1, 2}
    /\ \A other \in PlanOf(id) : tasks[other].priority = tasks[id].priority
    /\ tasks[id].priority \in {"medium", "high"}
    /\ tasks[id].priority = "high" <=>
         (Match(tasks[id].query, CrisisWords) \/ tasks[id].phase = "crisis")

\* C37 happens: a plan of two tasks made in the crisis phase from a content
\* without a crisis keyword.
C37_Witness ==
  \E id \in TaskIds :
    /\ Cardinality(PlanOf(id)) = 2
    /\ tasks[id].phase = "crisis"
    /\ ~Match(tasks[id].query, CrisisWords)
    /\ tasks[id].priority = "high"

\* The agent_response payloads broadcast for task number id.
Responses(id) ==
  {k \in 1..Len(broadcasts[id]) : broadcasts[id][k].type = "agent_response"}

\* C35: a task that has entered in_progress gets exactly one agent_response over
\* its lifetime: none while its specialist is running, one once it has ended,
\* and that one carries isError = TRUE exactly when the task has ended failed.
C35_OneResponse ==
  \A id \in TaskIds :
    /\ Cardinality(Responses(id)) <= 1
    /\ (tasks[id].status \in Terminal /\ id \notin activeTasks) =>
         /\ Cardinality(Responses(id)) = 1
         /\ \A k \in Responses(id) :
              /\ broadcasts[id][k].taskId = id
              /\ broadcasts[id][k].isError = (tasks[id].status = "failed")
    /\ (tasks[id].status \notin Terminal \/ id \in activeTasks) => Responses(id) = {}

\* C35 happens: one task has ended completed or failed by its specialist, and
\* another failed because its specialist returned undefined.
C35_Witness ==
  /\ \E id \in TaskIds :
       /\ tasks[id].status \in Terminal
       /\ id \notin activeTasks
       /\ tasks[id].error # TypeErrorMessage
  /\ \E id \in TaskIds :
       /\ tasks[id].status = "failed"
       /\ tasks[id].error = TypeErrorMessage
       /\ Cardinality(Responses(id)) = 1

\* C36: a terminal status is final.  A task whose status is completed stays
\* completed and a task whose status is failed stays failed, whatever the
\* specialist returns.
C36_TerminalFinal ==
  [][\A id \in TaskIds :
       tasks[id].status \in Terminal => tasks'[id].status = tasks[id].status]_vars


\* Some socket of the hook, the one in wsRef or one it has dropped, closes
\* with the code.
ClosesWith(code) ==
  \/ SocketCloses(code)
  \/ \E kind \in OrphanKinds : OrphanCloses(kind, code)

\* C38: the count of reconnection attempts stays between 0 and 5; a close with
\* a code other than 1000 while the count is below 5 schedules exactly one
\* reconnect and counts it; a close with code 1000, or with the count at 5,
\* schedules none; a socket that opens and an explicit disconnect set the
\* count to 0.
C38_ReconnectLoop ==
  [][/\ realtimeChat'.reconnectAttempts \in 0..5
     /\ \A code \in CloseCodes :
          ClosesWith(code) =>
            IF code # 1000 /\ realtimeChat.reconnectAttempts < 5
              THEN /\ realtimeChat'.timers = realtimeChat.timers + 1
                   /\ realtimeChat'.timeoutRef
                   /\ realtimeChat'.reconnectAttempts = realtimeChat.reconnectAttempts + 1
              ELSE /\ realtimeChat'.timers = realtimeChat.timers
                   /\ realtimeChat'.reconnectAttempts = realtimeChat.reconnectAttempts
     /\ (SocketOpens \/ OrphanOpens \/ UserDisconnects) =>
          realtimeChat'.reconnectAttempts = 0]_vars

\* Five reconnects have been made and the sixth socket has closed: nothing is
\* scheduled any more.
C38_Witness ==
  /\ realtimeChat.reconnectAttempts = 5
  /\ realtimeChat.ws = "CLOSED"
  /\ realtimeChat.timers = 0
  /\ realtimeChat.created = 6

\* The message the user sends in the step.
UserMessage == [type |-> "chat", content |-> realtimeChat.nextMessage]

IsChat(message) == message.type = "chat"

\* C39: a message sent while the socket is not open is appended to the queue
\* unless the queue holds 100 messages, and is dropped then; the queue never
\* holds more than 100; when the socket opens the queued messages are sent in
\* the order of the queue, once each, and the queue is left empty; nothing
\* leaves the queue otherwise, unless the hook is disconnected.
C39_OfflineQueue ==
  [][/\ Len(realtimeChat'.messageQueue) <= 100
     /\ (UserSendsMessage /\ realtimeChat.ws # "OPEN") =>
          /\ realtimeChat'.messageQueue =
               IF Len(realtimeChat.messageQueue) < 100
                 THEN Append(realtimeChat.messageQueue, UserMessage)
                 ELSE realtimeChat.messageQueue
          /\ realtimeChat'.sent = <<>>
     /\ (SocketOpens \/ OrphanOpens) =>
          /\ realtimeChat'.messageQueue = <<>>
          /\ SelectSeq(realtimeChat'.sent, IsChat) = realtimeChat.messageQueue
     /\ ~(SocketOpens \/ OrphanOpens \/ UserDisconnects) =>
          /\ Len(realtimeChat'.messageQueue) >= Len(realtimeChat.messageQueue)
          /\ SubSeq(realtimeChat'.messageQueue, 1, Len(realtimeChat.messageQueue))
               = realtimeChat.messageQueue]_vars

\* 101 messages were sent while the socket was connecting: the socket has
\* opened and the first hundred of them have gone out, in their order.
C39_Witness ==
  /\ realtimeChat.ws = "OPEN"
  /\ realtimeChat.nextMessage = 102
  /\ realtimeChat.messageQueue = <<>>
  /\ Len(realtimeChat.sent) = 100
  /\ \A i \in 1..100 : realtimeChat.sent[i].content = i

====
